---- MODULE Spec2Model ----
(***************************************************************************)
(* Model of wifi-connect-async's nl80211 scan path (src/nl80211/scan.rs,   *)
(* src/nl80211/interface.rs): one call of scan(interface) as a state       *)
(* machine whose steps are the suspension points of the async function,    *)
(* with the kernel as the environment that answers requests on the control *)
(* socket and multicasts scan notifications.                               *)
(*                                                                         *)
(* Conventions: an optional value (Option / Result.ok()) is a sequence of  *)
(* length 0 or 1; a byte string or a text is a sequence of bytes 0..255;   *)
(* an anyhow error is its context chain, outermost first.                  *)
(*                                                                         *)
(* A behaviour is either one call of scan(), or one evaluation of one of   *)
(* the pure functions (dbm_level_to_quality, extract_ssid,                 *)
(* get_nearby_stations) on an argument drawn from a bounded set.           *)
(***************************************************************************)
EXTENDS Integers, Sequences, FiniteSets, TLC

VARIABLES
    pc,         \* position of the scan() future: the await it is suspended at, or a terminal
    ctrlOpen,   \* the control socket (scan.rs:28) is open
    mcastOpen,  \* the multicast socket (scan.rs:43) is open
    ctrl,       \* batches queued on the control socket, oldest first
    mcast,      \* batches queued on the multicast socket, oldest first
    stream,     \* the batches the control socket holds once the request in progress is sent (history)
    items,      \* recv_all's `items` vector of the dump being drained
    fcalls,     \* the messages recv_all has passed to its extractor f (history)
    reads,      \* socket reads recv_all has made for the dump in progress (history)
    dropped,    \* interface-dump messages whose Interface::try_from failed (history)
    ifaces,     \* `ifaces` of scan(), once get_interfaces has returned
    ifindex,    \* `iface.index` of the matched interface, as an option
    ack,        \* the batch trigger_scan received, as an option (history)
    sent,       \* requests sent on the control socket, in order (history)
    log,        \* the steps of scan() completed so far, in order (history)
    failedOp,   \* the socket operation that failed, "none" if none did (history)
    notified,   \* notifications the kernel has multicast since the trigger request
    elapsed,    \* seconds spent suspended in complete_scan's recv
    result,     \* Ok value of scan(): the station list
    err,        \* Err value of scan(): the context chain, outermost first
    scanState,  \* kernel: the scan this call triggered ("idle", "scanning", "completed")
    unheard,    \* kernel: the batches multicast while the call's event socket had not joined,
                \* each with whether it ended the call's own scan
    call,       \* the function evaluated on its own ("none" in a behaviour of scan())
    arg,        \* its argument
    ret,        \* its return value, as an option (None before it has returned)
    \* init_network (network.rs), the NetworkManager path
    nmPc,       \* position in init_network ("off" when it does not run)
    now,        \* monotonic clock, milliseconds
    prescan,    \* scan_wifi: the timestamp taken before the scan request
    lastScan,   \* device.last_scan(): -1 when the device never scanned
    polled,     \* scan_wifi: the polls made, each [at, last]
    stations,   \* the station list init_network read
    connEvents, \* the state changes of the portal's active connection, in order
    heard,      \* the states the state-changed handler was called with, in order
    handlerOn,  \* finalize_active_connection_state: the state-changed handler is connected
    cell,       \* sender_cell still holds the oneshot sender
    observed,   \* the value sent on the oneshot channel, as an option
    profile,    \* the portal's connection profile: "none", "present", "deleted"
    nmErr,      \* Err value of init_network: the context chain, outermost first
    \* main.rs, web.rs and the command loop of network.rs
    mainPc,     \* main: "off", "await_init", "serving", "returned_ok", "returned_err"
    mainErr,    \* Err value of main: the context chain, outermost first
    netPc,      \* the network thread: "off", "init", "looping", "panicked"
    initChan,   \* the initialization oneshot: "empty", "closed", or the result sent
    queue,      \* the glib channel: the command requests not yet received by the loop
    responders, \* the oneshot channel of every command request, by its number
    futures,    \* the numbers of the requests whose future is spawned and not complete
    handlers,   \* the HTTP request handlers started, each [endpoint, pc, rid, response]
    shutdownOpt,   \* MainState.shutdown_opt holds the shutdown sender
    shutdownSends, \* how many times the shutdown signal was sent
    signalled,  \* a process signal (SIGINT, SIGTERM, SIGQUIT, SIGHUP) was delivered
    sigPc,      \* shutdown_signal: "off", "select", "await_stop", "done"
    stopRid     \* the number of shutdown_signal's Stop request (0: none)

vars == <<pc, ctrlOpen, mcastOpen, ctrl, mcast, stream, items, fcalls, reads, dropped,
          ifaces, ifindex, ack, sent, log, failedOp, notified, elapsed, result, err,
          scanState, unheard, call, arg, ret,
          nmPc, now, prescan, lastScan, polled, stations, connEvents, heard, handlerOn, cell,
          observed, profile, nmErr,
          mainPc, mainErr, netPc, initChan, queue, responders, futures, handlers,
          shutdownOpt, shutdownSends, signalled, sigPc, stopRid>>

\* the states of the oneshot channel of the initialization report (main.rs:54):
\* nothing sent yet, a value sent, the sender dropped without a value
EmptyChannel == [state |-> "empty", value |-> <<>>]
SentOn(v) == [state |-> "sent", value |-> <<v>>]
ClosedChannel == [state |-> "closed", value |-> <<>>]

appVars == <<mainPc, mainErr, netPc, initChan, queue, responders, futures, handlers,
             shutdownOpt, shutdownSends, signalled, sigPc, stopRid>>

\* the application (main, web server, network thread) does not run
AppIdle ==
    /\ mainPc = "off"
    /\ mainErr = <<>>
    /\ netPc = "off"
    /\ initChan = EmptyChannel
    /\ queue = <<>>
    /\ responders = <<>>
    /\ futures = {}
    /\ handlers = <<>>
    /\ shutdownOpt = FALSE
    /\ shutdownSends = 0
    /\ signalled = FALSE
    /\ sigPc = "off"
    /\ stopRid = 0

nmVars == <<nmPc, now, prescan, lastScan, polled, stations, connEvents, heard, handlerOn, cell,
            observed, profile, nmErr>>

\* init_network does not run
NmIdle ==
    /\ nmPc = "off"
    /\ now = 0
    /\ prescan = 0
    /\ lastScan = -1
    /\ polled = <<>>
    /\ stations = <<>>
    /\ connEvents = <<>>
    /\ heard = <<>>
    /\ handlerOn = FALSE
    /\ cell = FALSE
    /\ observed = <<>>
    /\ profile = "none"
    /\ nmErr = <<>>

(***************************************************************************)
(* Bounds of the model.                                                    *)
(***************************************************************************)
MaxNotifications == 2

(***************************************************************************)
(* Program constants.                                                      *)
(***************************************************************************)
WLAN_EID_SSID == 0
WIFI_SCAN_TIMEOUT_SECONDS == 45

None == <<>>
Some(x) == <<x>>
IsSome(o) == Len(o) > 0
Unwrap(o) == o[1]

(***************************************************************************)
(* Scalars on the wire: little-endian fixed-width integers. The model's    *)
(* integers are 32-bit signed, so an unsigned value is modelled only below *)
(* 2^31 (every index the environment below uses is).                       *)
(***************************************************************************)
U32Bytes(n) == << n % 256, (n \div 256) % 256, (n \div 65536) % 256, (n \div 16777216) % 256 >>
I32Bytes(n) ==
    IF n >= 0 THEN U32Bytes(n)
    ELSE LET m == (n + 2147483647) + 1
         IN << m % 256, (m \div 256) % 256, (m \div 65536) % 256, (m \div 16777216) + 128 >>

RECURSIVE LeValue(_)
LeValue(bytes) ==
    IF bytes = <<>> THEN 0 ELSE Head(bytes) + 256 * LeValue(Tail(bytes))

\* get_payload_as::<u32>: the payload read as a 4-byte unsigned integer
PayloadAsU32(p) == IF Len(p) = 4 THEN Some(LeValue(p)) ELSE None

\* get_payload_as::<u64>: the payload read as an 8-byte unsigned integer
PayloadAsU64(p) == IF Len(p) = 8 THEN Some(LeValue(p)) ELSE None

\* get_payload_as::<i32>: the payload read as a 4-byte two's complement integer
PayloadAsI32(p) ==
    IF Len(p) = 4
    THEN Some(LeValue(SubSeq(p, 1, 3))
              + 16777216 * (IF p[4] >= 128 THEN p[4] - 256 ELSE p[4]))
    ELSE None

(***************************************************************************)
(* String::from_utf8 / str::from_utf8: the well-formed UTF-8 sequences.    *)
(***************************************************************************)
Cont(b) == b >= 128 /\ b <= 191

RECURSIVE ValidUtf8(_)
ValidUtf8(b) ==
    IF b = <<>> THEN TRUE
    ELSE IF b[1] <= 127 THEN ValidUtf8(Tail(b))
    ELSE IF b[1] >= 194 /\ b[1] <= 223
         THEN Len(b) >= 2 /\ Cont(b[2]) /\ ValidUtf8(SubSeq(b, 3, Len(b)))
    ELSE IF b[1] >= 224 /\ b[1] <= 239
         THEN /\ Len(b) >= 3
              /\ Cont(b[2]) /\ Cont(b[3])
              /\ (b[1] = 224 => b[2] >= 160)
              /\ (b[1] = 237 => b[2] <= 159)
              /\ ValidUtf8(SubSeq(b, 4, Len(b)))
    ELSE IF b[1] >= 240 /\ b[1] <= 244
         THEN /\ Len(b) >= 4
              /\ Cont(b[2]) /\ Cont(b[3]) /\ Cont(b[4])
              /\ (b[1] = 240 => b[2] >= 144)
              /\ (b[1] = 244 => b[2] <= 143)
              /\ ValidUtf8(SubSeq(b, 5, Len(b)))
    ELSE FALSE

FromUtf8(b) == IF ValidUtf8(b) THEN Some(b) ELSE None

\* get_attr_payload_as_with_len::<String>: a NUL-terminated text
PayloadAsString(p) ==
    IF Len(p) >= 1 /\ p[Len(p)] = 0 THEN FromUtf8(SubSeq(p, 1, Len(p) - 1)) ELSE None

(***************************************************************************)
(* Attributes: [type, payload, nested] in wire order, `nested` being what  *)
(* the payload parses to when a consumer reads it as a nested attribute    *)
(* sequence (None when it does not parse). A handle finds the first        *)
(* attribute of a type.                                                    *)
(***************************************************************************)
Attr(t, p) == [type |-> t, payload |-> p, nested |-> None]

\* an attribute whose payload parses as a nested attribute sequence
NestedAttr(t, attrs) == [type |-> t, payload |-> <<>>, nested |-> Some(attrs)]

RECURSIVE GetAttribute(_, _)
GetAttribute(attrs, t) ==
    IF attrs = <<>> THEN None
    ELSE IF Head(attrs).type = t THEN Some(Head(attrs))
    ELSE GetAttribute(Tail(attrs), t)

\* get_nested_attributes: the attribute must be present and parse as nested
GetNestedAttributes(attrs, t) ==
    IF IsSome(GetAttribute(attrs, t)) THEN Unwrap(GetAttribute(attrs, t)).nested ELSE None

(***************************************************************************)
(* Netlink messages. nl_type is the outer header's type; kind is the       *)
(* NlPayload variant the message decodes to; cmd and attrs are those of    *)
(* the generic-netlink payload.                                            *)
(***************************************************************************)
GenlMsg(c, a) == [nl_type |-> "Family", kind |-> "Payload", cmd |-> c, attrs |-> a]
DoneMsg == [nl_type |-> "Done", kind |-> "Empty", cmd |-> "None", attrs |-> <<>>]
AckMsg == [nl_type |-> "Error", kind |-> "Ack", cmd |-> "None", attrs |-> <<>>]
ErrMsg == [nl_type |-> "Error", kind |-> "Err", cmd |-> "None", attrs |-> <<>>]

\* Nlmsghdr::get_payload(): Ok only for the Payload variant
GetPayload(msg) == IF msg.kind = "Payload" THEN Some(msg) ELSE None

(***************************************************************************)
(* interface.rs: Interface::try_from                                       *)
(***************************************************************************)
\* get_attr_payload_as / get_attr_payload_as_with_len of one attribute
AttrU32(attrs, t) ==
    IF IsSome(GetAttribute(attrs, t))
    THEN PayloadAsU32(Unwrap(GetAttribute(attrs, t)).payload) ELSE None

AttrU64(attrs, t) ==
    IF IsSome(GetAttribute(attrs, t))
    THEN PayloadAsU64(Unwrap(GetAttribute(attrs, t)).payload) ELSE None

AttrString(attrs, t) ==
    IF IsSome(GetAttribute(attrs, t))
    THEN PayloadAsString(Unwrap(GetAttribute(attrs, t)).payload) ELSE None

\* get_attr_payload_as_with_len::<&[u8]> then try_into::<[u8; 6]>
AttrMac(attrs, t) ==
    IF IsSome(GetAttribute(attrs, t)) /\ Len(Unwrap(GetAttribute(attrs, t)).payload) = 6
    THEN Some(Unwrap(GetAttribute(attrs, t)).payload) ELSE None

\* From<c_uint> for InterfaceType: the known codes, anything else Unspecified
InterfaceTypeFrom(n) == IF n >= 0 /\ n <= 12 THEN n ELSE 0

InterfaceTryFrom(payload) ==
    LET a == payload.attrs IN
    IF /\ IsSome(AttrString(a, "Ifname"))
       /\ IsSome(AttrU32(a, "Ifindex"))
       /\ IsSome(AttrU32(a, "Iftype"))
       /\ IsSome(AttrU32(a, "Wiphy"))
       /\ IsSome(AttrU64(a, "Wdev"))
       /\ IsSome(AttrMac(a, "Mac"))
    THEN Some([name        |-> Unwrap(AttrString(a, "Ifname")),
               index       |-> Unwrap(AttrU32(a, "Ifindex")),
               iftype      |-> InterfaceTypeFrom(Unwrap(AttrU32(a, "Iftype"))),
               wiphy       |-> Unwrap(AttrU32(a, "Wiphy")),
               wdev        |-> Unwrap(AttrU64(a, "Wdev")),
               mac_address |-> Unwrap(AttrMac(a, "Mac"))])
    ELSE None

(***************************************************************************)
(* scan.rs: information elements and the quality model                     *)
(***************************************************************************)
\* ExtractElement handing out the bytes that are left when the declared length
\* exceeds them
ExtractElementPartial(buf, pos) ==
    IF pos + 2 <= Len(buf)
    THEN LET end == IF pos + 2 + buf[pos + 2] <= Len(buf)
                    THEN pos + 2 + buf[pos + 2] ELSE Len(buf) IN
         Some([eid  |-> buf[pos + 1],
               data |-> SubSeq(buf, pos + 3, end),
               next |-> end])
    ELSE None

\* extract_element at cursor position pos (bytes already consumed): the
\* element and the position after it, None when the buffer runs out
ExtractElement(buf, pos) ==
    IF pos + 2 <= Len(buf) /\ pos + 2 + buf[pos + 2] <= Len(buf)
    THEN Some([eid  |-> buf[pos + 1],
               data |-> SubSeq(buf, pos + 3, pos + 2 + buf[pos + 2]),
               next |-> pos + 2 + buf[pos + 2]])
    ELSE None

\* ExtractSsidFrom going on after a match: a later SSID element replaces an earlier one
RECURSIVE ExtractSsidFromLast(_, _)
ExtractSsidFromLast(buf, pos) ==
    LET e == ExtractElement(buf, pos) IN
    IF ~IsSome(e) THEN <<>>
    ELSE LET later == ExtractSsidFromLast(buf, Unwrap(e).next) IN
         IF Unwrap(e).eid = WLAN_EID_SSID /\ later = <<>> THEN Unwrap(e).data
         ELSE later

RECURSIVE ExtractSsidFrom(_, _)
ExtractSsidFrom(buf, pos) ==
    LET e == ExtractElement(buf, pos) IN
    IF ~IsSome(e) THEN <<>>
    ELSE IF Unwrap(e).eid = WLAN_EID_SSID THEN Unwrap(e).data
    ELSE ExtractSsidFrom(buf, Unwrap(e).next)

ExtractSsid(buf) == ExtractSsidFrom(buf, 0)

\* The signals in -9999..-4001 at which 100 - 100*|s/100 + 40|/60 is a half in exact
\* arithmetic and the f64 evaluation falls just below it, so that round() goes down.
F64BelowHalf ==
    {-9790, -9490, -9190, -8890, -8590, -8290, -7990, -7870, -7690,
     -7570, -7390, -7270, -7090, -6970, -6790, -6670, -6490, -6370}

\* DbmLevelToQuality without the clamp at -40 dBm: the distance from -40 dBm also
\* lowers the quality of a stronger signal
DbmLevelToQualityNoUpperClamp(signal) ==
    IF signal <= -10000 THEN 0
    ELSE IF signal >= 2000 THEN 0
    ELSE IF signal >= -4000 THEN (2000 - signal + 30) \div 60
    ELSE IF signal \in F64BelowHalf THEN (signal + 10000) \div 60
    ELSE (signal + 10000 + 30) \div 60

\* dbm_level_to_quality, the f64 evaluation in integers: between the clamps the
\* quality is (s + 10000)/60 rounded to nearest, halves away from zero
DbmLevelToQuality(signal) ==
    IF signal >= -4000 THEN 100
    ELSE IF signal <= -10000 THEN 0
    ELSE IF signal \in F64BelowHalf THEN (signal + 10000) \div 60
    ELSE (signal + 10000 + 30) \div 60

(***************************************************************************)
(* scan.rs: the extractors handed to recv_all                              *)
(***************************************************************************)
\* get_interfaces' closure (scan.rs:58-60)
InterfaceExtractor(msg) ==
    IF IsSome(GetPayload(msg)) THEN InterfaceTryFrom(Unwrap(GetPayload(msg))) ELSE None

\* StationExtractor taking the SSID bytes as text without checking them
StationExtractorUnchecked(msg) ==
    IF ~IsSome(GetPayload(msg)) THEN None
    ELSE LET bss == GetNestedAttributes(Unwrap(GetPayload(msg)).attrs, "Bss") IN
    IF ~IsSome(bss) THEN None
    ELSE LET sig == GetAttribute(Unwrap(bss), "SignalMbm") IN
    IF ~IsSome(sig) THEN None
    ELSE LET mbm == PayloadAsI32(Unwrap(sig).payload) IN
    IF ~IsSome(mbm) THEN None
    ELSE LET ie == GetAttribute(Unwrap(bss), "InformationElements") IN
    IF ~IsSome(ie) THEN None
    ELSE LET ssid == ExtractSsid(Unwrap(ie).payload) IN
    IF ssid = <<>> THEN None
    ELSE Some([ssid |-> ssid, quality |-> DbmLevelToQuality(Unwrap(mbm))])

\* StationExtractor taking an absent signal attribute as 0
StationExtractorDefaultSignal(msg) ==
    IF ~IsSome(GetPayload(msg)) THEN None
    ELSE LET bss == GetNestedAttributes(Unwrap(GetPayload(msg)).attrs, "Bss") IN
    IF ~IsSome(bss) THEN None
    ELSE LET sig == GetAttribute(Unwrap(bss), "SignalMbm") IN
         LET mbm == IF IsSome(sig) THEN PayloadAsI32(Unwrap(sig).payload) ELSE Some(0) IN
    IF ~IsSome(mbm) THEN None
    ELSE LET ie == GetAttribute(Unwrap(bss), "InformationElements") IN
    IF ~IsSome(ie) THEN None
    ELSE LET ssid == FromUtf8(ExtractSsid(Unwrap(ie).payload)) IN
    IF ~IsSome(ssid) \/ Unwrap(ssid) = <<>> THEN None
    ELSE Some([ssid |-> Unwrap(ssid), quality |-> DbmLevelToQuality(Unwrap(mbm))])

\* get_scan_results' closure (scan.rs:114-138)
StationExtractor(msg) ==
    IF ~IsSome(GetPayload(msg)) THEN None
    ELSE LET bss == GetNestedAttributes(Unwrap(GetPayload(msg)).attrs, "Bss") IN
    IF ~IsSome(bss) THEN None
    ELSE LET sig == GetAttribute(Unwrap(bss), "SignalMbm") IN
    IF ~IsSome(sig) THEN None
    ELSE LET mbm == PayloadAsI32(Unwrap(sig).payload) IN
    IF ~IsSome(mbm) THEN None
    ELSE LET ie == GetAttribute(Unwrap(bss), "InformationElements") IN
    IF ~IsSome(ie) THEN None
    ELSE LET ssid == FromUtf8(ExtractSsid(Unwrap(ie).payload)) IN
    IF ~IsSome(ssid) \/ Unwrap(ssid) = <<>> THEN None
    ELSE Some([ssid |-> Unwrap(ssid), quality |-> DbmLevelToQuality(Unwrap(mbm))])

Extract(kind, msg) ==
    IF kind = "iface" THEN InterfaceExtractor(msg) ELSE StationExtractor(msg)

(***************************************************************************)
(* scan.rs: recv_all's pass over one batch (the for loop, lines 223-231).  *)
(* st = [items, fcalls, done]; the loop is left at a Done message.         *)
(***************************************************************************)
\* RecvAllStep putting each item at the front of the vector
RecvAllStepPrepend(kind, msg, st) ==
    IF msg.nl_type = "Done" THEN [st EXCEPT !.done = TRUE]
    ELSE [st EXCEPT !.fcalls = Append(@, msg),
                    !.items = IF IsSome(Extract(kind, msg))
                              THEN <<Unwrap(Extract(kind, msg))>> \o @ ELSE @]

RecvAllStep(kind, msg, st) ==
    IF msg.nl_type = "Done" THEN [st EXCEPT !.done = TRUE]
    ELSE [st EXCEPT !.fcalls = Append(@, msg),
                    !.items = IF IsSome(Extract(kind, msg))
                              THEN Append(@, Unwrap(Extract(kind, msg))) ELSE @]

\* RecvAllBatch noting the Done marker without leaving the loop: the rest of the
\* batch is still passed to the extractor
RECURSIVE RecvAllBatchInnerBreak(_, _, _)
RecvAllBatchInnerBreak(kind, msgs, st) ==
    IF msgs = <<>> THEN st
    ELSE IF Head(msgs).nl_type = "Done"
         THEN RecvAllBatchInnerBreak(kind, Tail(msgs), [st EXCEPT !.done = TRUE])
         ELSE RecvAllBatchInnerBreak(kind, Tail(msgs),
                                     [RecvAllStep(kind, Head(msgs), st) EXCEPT !.done = st.done])

RECURSIVE RecvAllBatch(_, _, _)
RecvAllBatch(kind, msgs, st) ==
    IF msgs = <<>> \/ st.done THEN st
    ELSE RecvAllBatch(kind, Tail(msgs), RecvAllStep(kind, Head(msgs), st))

(***************************************************************************)
(* scan.rs: scan()'s own decisions                                         *)
(***************************************************************************)
\* FindInterface taking the first interface whatever its name
FindInterfaceFirst(list, name) == IF list = <<>> THEN None ELSE Some(Head(list))

\* ifaces.iter().find(|iface| iface.name == interface) (scan.rs:34-37)
RECURSIVE FindInterface(_, _)
FindInterface(list, name) ==
    IF list = <<>> THEN None
    ELSE IF Head(list).name = name THEN Some(Head(list))
    ELSE FindInterface(Tail(list), name)

\* complete_scan's has_scan_results (scan.rs:90-93)
RECURSIVE HasScanResults(_)
HasScanResults(msgs) ==
    IF msgs = <<>> THEN FALSE
    ELSE \/ IsSome(GetPayload(Head(msgs))) /\ Unwrap(GetPayload(Head(msgs))).cmd = "NewScanResults"
         \/ HasScanResults(Tail(msgs))

(***************************************************************************)
(* The environment: what the kernel may answer and multicast.              *)
(***************************************************************************)
Wlan0 == <<119, 108, 97, 110, 48>>
Wlan1 == <<119, 108, 97, 110, 49>>

\* the interface name scan() is called with (web.rs:133)
Requested == Wlan0

IfaceAttrs(name, index) ==
    << Attr("Ifindex", U32Bytes(index)),
       Attr("Ifname", name \o <<0>>),
       Attr("Wiphy", U32Bytes(0)),
       Attr("Iftype", U32Bytes(2)),
       Attr("Wdev", U32Bytes(index) \o U32Bytes(0)),
       Attr("Mac", <<2, 0, 0, 0, 0, index>>) >>

IfaceMsg(name, index) == GenlMsg("NewInterface", IfaceAttrs(name, index))

\* an interface message without its Wdev attribute
IfaceNoWdev(name, index) ==
    GenlMsg("NewInterface", SelectSeq(IfaceAttrs(name, index), LAMBDA a : a.type # "Wdev"))

\* an interface message whose Ifindex payload is 2 bytes wide
IfaceShortIndex(name, index) ==
    GenlMsg("NewInterface",
            <<Attr("Ifindex", <<index, 0>>)>> \o Tail(IfaceAttrs(name, index)))

IfaceDumps ==
    { << <<IfaceMsg(Wlan1, 3), IfaceMsg(Wlan0, 7)>>, <<DoneMsg>> >>,
      << <<IfaceMsg(Wlan1, 3)>>, <<DoneMsg>> >>,
      << <<IfaceNoWdev(Wlan1, 3)>>, <<IfaceMsg(Wlan0, 7), DoneMsg>> >>,
      << <<IfaceShortIndex(Wlan0, 7), IfaceMsg(Wlan1, 3), DoneMsg>> >>,
      << <<ErrMsg, IfaceMsg(Wlan0, 7), DoneMsg, IfaceMsg(Wlan0, 9)>>, <<IfaceMsg(Wlan1, 3)>> >>,
      << <<IfaceMsg(Wlan1, 3), DoneMsg, IfaceMsg(Wlan0, 7)>>, <<DoneMsg>> >> }

TriggerReplies == { << <<AckMsg>> >>, << <<ErrMsg>> >> }

IE(id, data) == <<id, Len(data)>> \o data

BssMsg(bss) == GenlMsg("NewScanResults", <<Attr("Ifindex", U32Bytes(7)), bss>>)

Bss(signal, ies) ==
    NestedAttr("Bss", << Attr("Bssid", <<2, 0, 0, 0, 0, 1>>),
                         Attr("SignalMbm", I32Bytes(signal)),
                         Attr("InformationElements", ies) >>)

NetA == <<65>>
NetB == <<66>>

GoodA == BssMsg(Bss(-5000, IE(5, <<1>>) \o IE(0, NetA) \o IE(1, <<2>>)))
GoodA2 == BssMsg(Bss(-9790, IE(0, NetA)))
GoodB == BssMsg(Bss(-3000, IE(0, NetB) \o IE(0, NetA)))
Hidden == BssMsg(Bss(-6000, IE(0, <<>>) \o IE(1, <<2>>)))
NoSsidElement == BssMsg(Bss(-6000, IE(1, <<2>>)))
TruncatedIe == BssMsg(Bss(-6000, <<1, 1, 9, 0, 4, 65>>))
NotUtf8 == BssMsg(Bss(-6000, IE(0, <<255, 65>>)))
NoBss == GenlMsg("NewScanResults", <<Attr("Ifindex", U32Bytes(7))>>)
MalformedBss == BssMsg(Attr("Bss", <<1, 2, 3>>))
NoSignal == BssMsg(NestedAttr("Bss", <<Attr("InformationElements", IE(0, NetA))>>))
ShortSignal ==
    BssMsg(NestedAttr("Bss", << Attr("SignalMbm", <<120, 236>>),
                               Attr("InformationElements", IE(0, NetA)) >>))
NoIes == BssMsg(NestedAttr("Bss", <<Attr("SignalMbm", I32Bytes(-5000))>>))

ScanDumps ==
    { << <<GoodA, GoodB>>, <<GoodA2, DoneMsg>> >>,
      << <<NoBss, GoodB, MalformedBss>>, <<NoSignal, GoodA, ShortSignal, NoIes>>, <<DoneMsg>> >>,
      << <<NotUtf8, Hidden, GoodA2>>, <<NoSsidElement, TruncatedIe, ErrMsg, GoodB, DoneMsg, GoodA>>,
         <<GoodA>> >>,
      << <<DoneMsg>> >> }

Notification(c) == GenlMsg(c, <<Attr("Ifindex", U32Bytes(7))>>)

\* the same about another interface
NotificationOn(c, index) == GenlMsg(c, <<Attr("Ifindex", U32Bytes(index))>>)

McastBatches ==
    { <<Notification("NewScanResults")>>,
      <<Notification("TriggerScan")>>,
      <<ErrMsg, Notification("ScanAborted")>>,
      <<Notification("TriggerScan"), Notification("NewScanResults")>>,
      <<NotificationOn("NewScanResults", 3)>> }

\* batch b tells of new scan results on the interface with this index
TellsResultsOn(b, index) ==
    \E i \in 1..Len(b) : b[i] = NotificationOn("NewScanResults", index)

\* what a failed socket operation reports: an I/O error, or (a receive) bytes that
\* do not decode as messages of the expected type
SendErrors == {"io"}
RecvErrors == {"io", "decode"}
\* the contexts of create_main_socket's errors (scan.rs:145, 149, 151) and of
\* create_multicast_socket's (scan.rs:158, 162, 165, 167)
SocketErrors ==
    { "Failed to establish netlink socket", "Failed to resolve nl80211 family",
      "Failed to connect main socket" }
McastSocketErrors ==
    { "Failed to connect multicast socket", "Failed to resolve muticast group",
      "Failed to add multicast membership", "Failed to set up multicast socket" }

(***************************************************************************)
(* scan(): the order of its awaits (scan.rs:27-48). AfterStep(p) is where  *)
(* the future goes when the step it is suspended at succeeds.              *)
(***************************************************************************)
\* AfterStep asking for the scan dump right after the trigger, without the wait
AfterStepNoWait(p) ==
    CASE p = "create_main_socket"      -> "get_interfaces_send"
      [] p = "get_interfaces_send"     -> "get_interfaces_recv"
      [] p = "get_interfaces_recv"     -> "trigger_send"
      [] p = "trigger_send"            -> "trigger_recv"
      [] p = "trigger_recv"            -> "get_scan_send"
      [] p = "create_multicast_socket" -> "complete_scan_recv"
      [] p = "complete_scan_recv"      -> "get_scan_send"
      [] p = "get_scan_send"           -> "get_scan_recv"
      [] p = "get_scan_recv"           -> "done"

\* AfterStep without the receive of trigger_scan: the next step follows the send
AfterStepNoAck(p) ==
    CASE p = "create_main_socket"      -> "get_interfaces_send"
      [] p = "get_interfaces_send"     -> "get_interfaces_recv"
      [] p = "get_interfaces_recv"     -> "trigger_send"
      [] p = "trigger_send"            -> "create_multicast_socket"
      [] p = "trigger_recv"            -> "create_multicast_socket"
      [] p = "create_multicast_socket" -> "complete_scan_recv"
      [] p = "complete_scan_recv"      -> "get_scan_send"
      [] p = "get_scan_send"           -> "get_scan_recv"
      [] p = "get_scan_recv"           -> "done"

AfterStep(p) ==
    CASE p = "create_main_socket"      -> "get_interfaces_send"
      [] p = "get_interfaces_send"     -> "get_interfaces_recv"
      [] p = "get_interfaces_recv"     -> "trigger_send"
      [] p = "trigger_send"            -> "trigger_recv"
      [] p = "trigger_recv"            -> "create_multicast_socket"
      [] p = "create_multicast_socket" -> "complete_scan_recv"
      [] p = "complete_scan_recv"      -> "get_scan_send"
      [] p = "get_scan_send"           -> "get_scan_recv"
      [] p = "get_scan_recv"           -> "done"

Terminal == {"done", "failed", "panicked"}

\* the variables of scan() before its first step
ScanInit ==
    /\ pc = "create_main_socket"
    /\ ctrlOpen = FALSE
    /\ mcastOpen = FALSE
    /\ ctrl = <<>>
    /\ mcast = <<>>
    /\ stream = <<>>
    /\ items = <<>>
    /\ fcalls = <<>>
    /\ reads = 0
    /\ dropped = 0
    /\ ifaces = <<>>
    /\ ifindex = None
    /\ ack = None
    /\ sent = <<>>
    /\ log = <<>>
    /\ failedOp = "none"
    /\ notified = 0
    /\ elapsed = 0
    /\ result = <<>>
    /\ err = <<>>
    /\ scanState = "idle"
    /\ unheard = <<>>

(***************************************************************************)
(* network.rs: Station::try_from(&AccessPoint) and get_nearby_stations.    *)
(* An access point is [ssid: option of bytes, strength: 0..100].           *)
(***************************************************************************)
\* ssid_to_str (network.rs:343-346)
SsidToStr(ssid) == IF IsSome(ssid) THEN FromUtf8(Unwrap(ssid)) ELSE None

\* Station::try_from (network.rs:90-100), .ok()
StationTryFrom(ap) ==
    IF IsSome(SsidToStr(ap.ssid))
    THEN Some([ssid |-> Unwrap(SsidToStr(ap.ssid)), quality |-> ap.strength])
    ELSE None

RECURSIVE FilterMapStations(_)
FilterMapStations(aps) ==
    IF aps = <<>> THEN <<>>
    ELSE StationTryFrom(Head(aps)) \o FilterMapStations(Tail(aps))

\* Ord of String: bytewise lexicographic
RECURSIVE BytesLeq(_, _)
BytesLeq(a, b) ==
    IF a = <<>> THEN TRUE
    ELSE IF b = <<>> THEN FALSE
    ELSE IF Head(a) # Head(b) THEN Head(a) < Head(b)
    ELSE BytesLeq(Tail(a), Tail(b))

\* Ord of the sort key (station.quality, station.ssid)
KeyLeq(a, b) ==
    a.quality < b.quality \/ (a.quality = b.quality /\ BytesLeq(a.ssid, b.ssid))

\* sort_by_key: a stable ascending sort, here by insertion
RECURSIVE InsertByKey(_, _)
InsertByKey(x, sorted) ==
    IF sorted = <<>> THEN <<x>>
    ELSE IF KeyLeq(Head(sorted), x) THEN <<Head(sorted)>> \o InsertByKey(x, Tail(sorted))
    ELSE <<x>> \o sorted

RECURSIVE SortByKeyFrom(_, _)
SortByKeyFrom(list, sorted) ==
    IF list = <<>> THEN sorted
    ELSE SortByKeyFrom(Tail(list), InsertByKey(Head(list), sorted))

SortByKey(list) == SortByKeyFrom(list, <<>>)

Reverse(list) == [i \in 1..Len(list) |-> list[Len(list) + 1 - i]]

\* retain(|station| inserted.insert(station.ssid.clone())): the first of each SSID stays
RECURSIVE RetainFirstOfSsid(_, _)
RetainFirstOfSsid(list, inserted) ==
    IF list = <<>> THEN <<>>
    ELSE IF Head(list).ssid \in inserted THEN RetainFirstOfSsid(Tail(list), inserted)
    ELSE <<Head(list)>> \o RetainFirstOfSsid(Tail(list), inserted \cup {Head(list).ssid})

\* RetainNamed keeping every station
RetainNamedAll(list) == list

\* retain(|station| !station.ssid.is_empty())
RetainNamed(list) == SelectSeq(list, LAMBDA st : st.ssid # <<>>)

\* get_nearby_stations (network.rs:322-341)
GetNearbyStations(aps) ==
    RetainNamed(RetainFirstOfSsid(Reverse(SortByKey(FilterMapStations(aps))), {}))

(***************************************************************************)
(* The arguments the pure functions are evaluated on.                      *)
(***************************************************************************)
\* signals from SignalMargin below the lower clamp to SignalMargin above the upper
\* one, and the ends of the 32-bit range
SignalMargin == 100
SignalInputs ==
    ((-10000 - SignalMargin)..(-4000 + SignalMargin))
        \cup {-2147483647 - 1, -2147483647, -1000000, -1, 0, 1, 4000, 1000000, 2147483647}

\* every byte buffer of at most MaxBufLen bytes over BufBytes, and the buffer of
\* elements (5, "x"), (0, "MyNet"), (1, "y")
MaxBufLen == 6
BufBytes == {0, 1, 2, 65}
MyNet == <<77, 121, 78, 101, 116>>
ExampleBuffer == IE(5, <<120>>) \o IE(0, MyNet) \o IE(1, <<121>>)
BufferInputs ==
    UNION { [1..n -> BufBytes] : n \in 0..MaxBufLen } \cup {ExampleBuffer}

\* every list of at most MaxAps access points among these
MaxAps == 4
AccessPoint(ssid, strength) == [ssid |-> ssid, strength |-> strength]
AccessPoints ==
    { AccessPoint(Some(NetA), 50), AccessPoint(Some(NetB), 80), AccessPoint(Some(NetA), 90),
      AccessPoint(Some(<<>>), 99), AccessPoint(Some(<<255, 65>>), 70), AccessPoint(None, 60),
      AccessPoint(Some(<<65, 65>>), 80) }
AccessPointInputs == UNION { [1..n -> AccessPoints] : n \in 0..MaxAps }

\* a behaviour of scan()
CallInit ==
    /\ call = "none"
    /\ arg = <<>>
    /\ ret = None

\* scan() is not running
ScanIdle ==
    /\ pc = "function"
    /\ ctrlOpen = FALSE
    /\ mcastOpen = FALSE
    /\ ctrl = <<>>
    /\ mcast = <<>>
    /\ stream = <<>>
    /\ items = <<>>
    /\ fcalls = <<>>
    /\ reads = 0
    /\ dropped = 0
    /\ ifaces = <<>>
    /\ ifindex = None
    /\ ack = None
    /\ sent = <<>>
    /\ log = <<>>
    /\ failedOp = "none"
    /\ notified = 0
    /\ elapsed = 0
    /\ result = <<>>
    /\ err = <<>>
    /\ scanState = "idle"
    /\ unheard = <<>>

\* a behaviour that evaluates one function
FunctionInit ==
    /\ ScanIdle
    /\ ret = None
    /\ \/ call = "dbm_level_to_quality" /\ arg \in SignalInputs
       \/ call = "extract_ssid" /\ arg \in BufferInputs
       \/ call = "get_nearby_stations" /\ arg \in AccessPointInputs

Init == ((ScanInit /\ CallInit) \/ FunctionInit) /\ NmIdle /\ AppIdle

scanVars == <<pc, ctrlOpen, mcastOpen, ctrl, mcast, stream, items, fcalls, reads, dropped,
              ifaces, ifindex, ack, sent, log, failedOp, notified, elapsed, result, err,
              scanState, unheard>>

\* dbm_level_to_quality(arg) (scan.rs:255-263)
CallDbmLevelToQuality ==
    /\ call = "dbm_level_to_quality"
    /\ ret = None
    /\ ret' = Some(DbmLevelToQuality(arg))
    /\ UNCHANGED <<scanVars, call, arg>>
    /\ UNCHANGED <<nmVars, appVars>>

\* extract_ssid(&mut Cursor::new(arg)) (scan.rs:237-245)
CallExtractSsid ==
    /\ call = "extract_ssid"
    /\ ret = None
    /\ ret' = Some(ExtractSsid(arg))
    /\ UNCHANGED <<scanVars, call, arg>>
    /\ UNCHANGED <<nmVars, appVars>>

\* get_nearby_stations over a device whose access points are arg (network.rs:322-341)
CallGetNearbyStations ==
    /\ call = "get_nearby_stations"
    /\ ret = None
    /\ ret' = Some(GetNearbyStations(arg))
    /\ UNCHANGED <<scanVars, call, arg>>
    /\ UNCHANGED <<nmVars, appVars>>

\* Fail keeping the sockets of the call open (handles stored beyond the call)
FailKeepSockets(chain) ==
    /\ pc' = "failed"
    /\ err' = chain
    /\ UNCHANGED <<ctrlOpen, mcastOpen>>

\* scan() returns Err(chain): `?` leaves the function and its sockets are dropped
Fail(chain) ==
    /\ pc' = "failed"
    /\ err' = chain
    /\ ctrlOpen' = FALSE
    /\ mcastOpen' = FALSE

\* the same, the error being that of socket operation op
FailOp(op, chain) ==
    /\ Fail(chain)
    /\ failedOp' = op

\* create_main_socket (scan.rs:28, 143-154)
CreateMainSocket ==
    /\ pc = "create_main_socket"
    /\ \/ /\ pc' = AfterStep(pc)
          /\ ctrlOpen' = TRUE
          /\ UNCHANGED <<mcastOpen, err, failedOp>>
       \/ \E e \in SocketErrors, cause \in SendErrors : FailOp("connect", <<e, cause>>)
    /\ UNCHANGED <<ctrl, mcast, stream, items, fcalls, reads, dropped, ifaces, ifindex,
                   ack, sent, log, notified, elapsed, result>>
    /\ UNCHANGED <<scanState, unheard>>
    /\ UNCHANGED <<call, arg, ret>>
    /\ UNCHANGED <<nmVars, appVars>>

\* an interface-dump message that carries a payload Interface::try_from rejects
Undecodable(msg) == IsSome(GetPayload(msg)) /\ ~IsSome(InterfaceTryFrom(Unwrap(GetPayload(msg))))

\* get_interfaces: send (scan.rs:51-56); a failed send panics (.expect)
GetInterfacesSendFrom(dumps) ==
    /\ pc = "get_interfaces_send"
    /\ \/ \E r \in dumps :
            /\ pc' = AfterStep(pc)
            /\ ctrl' = ctrl \o r
            /\ stream' = ctrl \o r
            /\ sent' = Append(sent, "GetInterface")
            /\ log' = Append(log, "interface dump sent")
            /\ UNCHANGED <<ctrlOpen, mcastOpen, err, failedOp>>
       \/ /\ pc' = "panicked"
          /\ failedOp' = "send"
          /\ err' = <<"Failed to send get interface message">>
          /\ ctrlOpen' = FALSE
          /\ UNCHANGED <<mcastOpen, ctrl, stream, sent, log>>
    /\ items' = <<>>
    /\ fcalls' = <<>>
    /\ reads' = 0
    /\ UNCHANGED <<mcast, dropped, ifaces, ifindex, ack, notified, elapsed, result>>
    /\ UNCHANGED <<scanState, unheard>>
    /\ UNCHANGED <<call, arg, ret>>
    /\ UNCHANGED <<nmVars, appVars>>

GetInterfacesSend == GetInterfacesSendFrom(IfaceDumps)

\* get_interfaces: one iteration of recv_all's loop (scan.rs:58-62, 215-232), and,
\* when it returns, scan()'s search of the interface (scan.rs:34-37)
GetInterfacesRecv ==
    /\ pc = "get_interfaces_recv"
    /\ \/ /\ ctrl # <<>>
          /\ LET st == RecvAllBatch("iface", Head(ctrl),
                                    [items |-> items, fcalls |-> fcalls, done |-> FALSE])
                 found == FindInterface(st.items, Requested)
             IN /\ ctrl' = Tail(ctrl)
                /\ reads' = reads + 1
                /\ items' = st.items
                /\ fcalls' = st.fcalls
                /\ dropped' = Len(SelectSeq(st.fcalls, Undecodable))
                /\ IF ~st.done
                   THEN UNCHANGED <<pc, ctrlOpen, mcastOpen, ifaces, ifindex, log, err>>
                   ELSE /\ ifaces' = st.items
                        /\ IF IsSome(found)
                           THEN /\ pc' = AfterStep(pc)
                                /\ ifindex' = Some(Unwrap(found).index)
                                /\ log' = log \o <<"interface dump drained", "interface matched">>
                                /\ UNCHANGED <<ctrlOpen, mcastOpen, err>>
                           ELSE /\ Fail(<<"Interface not found">>)
                                /\ log' = Append(log, "interface dump drained")
                                /\ UNCHANGED ifindex
          /\ UNCHANGED failedOp
       \/ /\ \E e \in RecvErrors :
                FailOp("recv", <<"Failed to get interfaces",
                                 "Failed to receive get interface response",
                                 "Failed to receive nl80211 command response", e>>)
          /\ UNCHANGED <<ctrl, reads, items, fcalls, dropped, ifaces, ifindex, ack, log>>
    /\ UNCHANGED <<mcast, stream, ack, sent, notified, elapsed, result>>
    /\ UNCHANGED <<scanState, unheard>>
    /\ UNCHANGED <<call, arg, ret>>
    /\ UNCHANGED <<nmVars, appVars>>

\* trigger_scan: send (scan.rs:66-71)
TriggerSend ==
    /\ pc = "trigger_send"
    /\ \/ \E r \in TriggerReplies :
            /\ pc' = AfterStep(pc)
            /\ ctrl' = ctrl \o r
            /\ stream' = ctrl \o r
            /\ sent' = Append(sent, "TriggerScan")
            /\ log' = Append(log, "trigger request sent")
            /\ scanState' = IF r = <<<<AckMsg>>>> THEN "scanning" ELSE scanState
            /\ UNCHANGED <<ctrlOpen, mcastOpen, err, failedOp>>
       \/ /\ \E e \in SendErrors :
                FailOp("send", <<"Failed to trigger scan",
                                 "Failed to send trigger scan message", e>>)
          /\ UNCHANGED <<ctrl, stream, sent, log, scanState>>
    /\ UNCHANGED unheard
    /\ UNCHANGED <<mcast, items, fcalls, reads, dropped, ifaces, ifindex, ack, notified,
                   elapsed, result>>
    /\ UNCHANGED <<call, arg, ret>>
    /\ UNCHANGED <<nmVars, appVars>>

\* trigger_scan: receive (scan.rs:73-80); what is received is not looked at
TriggerRecv ==
    /\ pc = "trigger_recv"
    /\ \/ /\ ctrl # <<>>
          /\ ctrl' = Tail(ctrl)
          /\ ack' = Some(Head(ctrl))
          /\ pc' = AfterStep(pc)
          /\ log' = Append(log, "trigger acknowledgement received")
          /\ UNCHANGED <<ctrlOpen, mcastOpen, err, failedOp>>
       \/ /\ \E e \in RecvErrors :
                FailOp("recv", <<"Failed to trigger scan",
                                 "Failed to receive trigger scan acknowledgement", e>>)
          /\ UNCHANGED <<ctrl, ack, log>>
    /\ UNCHANGED <<mcast, stream, items, fcalls, reads, dropped, ifaces, ifindex, sent,
                   notified, elapsed, result>>
    /\ UNCHANGED <<scanState, unheard>>
    /\ UNCHANGED <<call, arg, ret>>
    /\ UNCHANGED <<nmVars, appVars>>

\* create_multicast_socket (scan.rs:43, 156-168)
CreateMulticastSocket ==
    /\ pc = "create_multicast_socket"
    /\ \/ /\ pc' = AfterStep(pc)
          /\ mcastOpen' = TRUE
          /\ log' = Append(log, "event channel joined")
          /\ UNCHANGED <<ctrlOpen, err, failedOp>>
       \/ /\ \E e \in McastSocketErrors, cause \in SendErrors :
                FailOp("connect", <<e, cause>>)
          /\ UNCHANGED log
    /\ UNCHANGED <<ctrl, mcast, stream, items, fcalls, reads, dropped, ifaces, ifindex, ack,
                   sent, notified, elapsed, result>>
    /\ UNCHANGED <<scanState, unheard>>
    /\ UNCHANGED <<call, arg, ret>>
    /\ UNCHANGED <<nmVars, appVars>>

\* complete_scan (scan.rs:83-100): one receive on the multicast socket
CompleteScanRecv ==
    /\ pc = "complete_scan_recv"
    /\ \/ /\ mcast # <<>>
          /\ mcast' = Tail(mcast)
          /\ IF HasScanResults(Head(mcast))
             THEN /\ pc' = AfterStep(pc)
                  /\ log' = Append(log, "completion notification received")
                  /\ UNCHANGED <<ctrlOpen, mcastOpen, err>>
             ELSE /\ Fail(<<"No scan results received">>)
                  /\ UNCHANGED log
          /\ UNCHANGED failedOp
       \/ /\ \E e \in RecvErrors :
                FailOp("recv", <<"Failed to receive new scan results notification", e>>)
          /\ UNCHANGED <<mcast, log>>
    /\ UNCHANGED <<ctrl, stream, items, fcalls, reads, dropped, ifaces, ifindex, ack, sent,
                   notified, elapsed, result>>
    /\ UNCHANGED <<scanState, unheard>>
    /\ UNCHANGED <<call, arg, ret>>
    /\ UNCHANGED <<nmVars, appVars>>

\* get_scan_results: send (scan.rs:107-112)
GetScanSendFrom(dumps) ==
    /\ pc = "get_scan_send"
    /\ \/ \E r \in dumps :
            /\ pc' = AfterStep(pc)
            /\ ctrl' = ctrl \o r
            /\ stream' = ctrl \o r
            /\ sent' = Append(sent, "GetScan")
            /\ log' = Append(log, "scan dump sent")
            /\ UNCHANGED <<ctrlOpen, mcastOpen, err, failedOp>>
       \/ /\ \E e \in SendErrors :
                FailOp("send", <<"Failed to send get scan results message", e>>)
          /\ UNCHANGED <<ctrl, stream, sent, log>>
    /\ items' = <<>>
    /\ fcalls' = <<>>
    /\ reads' = 0
    /\ UNCHANGED <<mcast, dropped, ifaces, ifindex, ack, notified, elapsed, result>>
    /\ UNCHANGED <<scanState, unheard>>
    /\ UNCHANGED <<call, arg, ret>>
    /\ UNCHANGED <<nmVars, appVars>>

GetScanSend == GetScanSendFrom(ScanDumps)

\* get_scan_results: one iteration of recv_all's loop (scan.rs:114-140, 215-232);
\* when it returns, scan() returns its items
GetScanRecv ==
    /\ pc = "get_scan_recv"
    /\ \/ /\ ctrl # <<>>
          /\ LET st == RecvAllBatch("scan", Head(ctrl),
                                    [items |-> items, fcalls |-> fcalls, done |-> FALSE])
             IN /\ ctrl' = Tail(ctrl)
                /\ reads' = reads + 1
                /\ items' = st.items
                /\ fcalls' = st.fcalls
                /\ IF ~st.done
                   THEN UNCHANGED <<pc, ctrlOpen, mcastOpen, log, result>>
                   ELSE /\ pc' = AfterStep(pc)
                        /\ result' = st.items
                        /\ log' = log \o <<"scan dump drained", "success returned">>
                        /\ ctrlOpen' = FALSE
                        /\ mcastOpen' = FALSE
          /\ UNCHANGED <<err, failedOp>>
       \/ /\ \E e \in RecvErrors :
                FailOp("recv", <<"Failed to receive get scan results response",
                                 "Failed to receive nl80211 command response", e>>)
          /\ UNCHANGED <<ctrl, reads, items, fcalls, log, result>>
    /\ UNCHANGED <<mcast, stream, dropped, ifaces, ifindex, ack, sent, notified, elapsed>>
    /\ UNCHANGED <<scanState, unheard>>
    /\ UNCHANGED <<call, arg, ret>>
    /\ UNCHANGED <<nmVars, appVars>>

\* the kernel multicasts a batch of scan notifications; it reaches the multicast
\* socket only if that socket has joined the group
\* The batch either ends the scan this call triggered (own), or comes from the scan
\* of another client, on this or on another interface.
KernelNotify ==
    /\ pc \in {"trigger_recv", "create_multicast_socket", "complete_scan_recv"}
    /\ notified < MaxNotifications
    /\ notified' = notified + 1
    /\ \E b \in McastBatches, own \in BOOLEAN :
            /\ own => (scanState = "scanning" /\ TellsResultsOn(b, 7))
            /\ scanState' = IF own THEN "completed" ELSE scanState
            /\ mcast' = IF mcastOpen THEN Append(mcast, b) ELSE mcast
            /\ unheard' = IF mcastOpen THEN unheard
                          ELSE Append(unheard, [batch |-> b, own |-> own])
    /\ UNCHANGED <<pc, ctrlOpen, mcastOpen, ctrl, stream, items, fcalls, reads, dropped,
                   ifaces, ifindex, ack, sent, log, failedOp, elapsed, result, err>>
    /\ UNCHANGED <<call, arg, ret>>
    /\ UNCHANGED <<nmVars, appVars>>

\* a second passes while complete_scan is suspended with nothing to read
Tick ==
    /\ pc = "complete_scan_recv"
    /\ mcast = <<>>
    /\ elapsed <= WIFI_SCAN_TIMEOUT_SECONDS
    /\ elapsed' = elapsed + 1
    /\ UNCHANGED <<pc, ctrlOpen, mcastOpen, ctrl, mcast, stream, items, fcalls, reads,
                   dropped, ifaces, ifindex, ack, sent, log, failedOp, notified, result, err>>
    /\ UNCHANGED <<scanState, unheard>>
    /\ UNCHANGED <<call, arg, ret>>
    /\ UNCHANGED <<nmVars, appVars>>

Next ==
    \/ CreateMainSocket
    \/ GetInterfacesSend
    \/ GetInterfacesRecv
    \/ TriggerSend
    \/ TriggerRecv
    \/ CreateMulticastSocket
    \/ CompleteScanRecv
    \/ GetScanSend
    \/ GetScanRecv
    \/ KernelNotify
    \/ Tick
    \/ CallDbmLevelToQuality
    \/ CallExtractSsid
    \/ CallGetNearbyStations

Spec == Init /\ [][Next]_vars

(***************************************************************************)
(* scan() against a kernel that keeps to the netlink protocol: the         *)
(* response to a dump request ends with its Done marker, which is the last *)
(* message of the last datagram, and the response to the trigger request   *)
(* is one acknowledgement or error message.                                *)
(***************************************************************************)
\* the response r holds one Done marker, its last message
EndsAtDone(r) ==
    /\ r # <<>>
    /\ \A i \in 1..Len(r) : r[i] # <<>>
    /\ \A i \in 1..Len(r) : \A j \in 1..Len(r[i]) :
          (r[i][j].nl_type = "Done") <=> (i = Len(r) /\ j = Len(r[i]))

ConformingIfaceDumps == { r \in IfaceDumps : EndsAtDone(r) }

ConformingScanDumps == { r \in ScanDumps : EndsAtDone(r) }

ConformingInit == ScanInit /\ CallInit /\ NmIdle /\ AppIdle

ConformingNext ==
    \/ CreateMainSocket
    \/ GetInterfacesSendFrom(ConformingIfaceDumps)
    \/ GetInterfacesRecv
    \/ TriggerSend
    \/ TriggerRecv
    \/ CreateMulticastSocket
    \/ CompleteScanRecv
    \/ GetScanSendFrom(ConformingScanDumps)
    \/ GetScanRecv
    \/ KernelNotify
    \/ Tick

ConformingSpec == ConformingInit /\ [][ConformingNext]_vars

(***************************************************************************)
(* network.rs: init_network, the NetworkManager path. One action per await *)
(* of init_network and of the functions it calls; the device and the       *)
(* NetworkManager daemon are the environment.                              *)
(***************************************************************************)
\* how many state changes of the portal's connection a behaviour holds
MaxStateChanges == 2

\* the clock when init_network starts, and the device's last scan then: never, earlier,
\* at that very millisecond
StartTime == 1000
EarlierScans == {-1, 400, StartTime}

\* the sleep between two polls, milliseconds
Second == 1000

\* when, after the start of a one-second sleep, the device's scan may end
ScanEnds == {1, 500}

\* the access points the device may report
DeviceAccessPoints ==
    { <<>>,
      << AccessPoint(Some(NetA), 50), AccessPoint(Some(NetB), 80),
         AccessPoint(Some(NetA), 90), AccessPoint(Some(<<>>), 99) >> }

\* ActiveConnectionState
ConnectionStates == {"Unknown", "Activating", "Activated", "Deactivating", "Deactivated"}

NmErrors == {"glib error"}

\* what find_device may report (network.rs:409-441)
FindDeviceErrors ==
    { "Failed to find interface 'wlan0'", "Not a WiFi interface 'wlan0'",
      "Interface is not managed by NetworkManager 'wlan0'",
      "Failed to find a managed WiFi device" }

NmInit ==
    /\ nmPc = "create_client"
    /\ now = StartTime
    /\ prescan = 0
    /\ lastScan \in EarlierScans
    /\ polled = <<>>
    /\ stations = <<>>
    /\ connEvents = <<>>
    /\ heard = <<>>
    /\ handlerOn = FALSE
    /\ cell = FALSE
    /\ observed = None
    /\ profile = "none"
    /\ nmErr = <<>>

\* init_network returns Err(chain)
NmFail(chain) ==
    /\ nmPc' = "failed"
    /\ nmErr' = chain

\* create_client (network.rs:203, 348-358)
CreateClient ==
    /\ nmPc = "create_client"
    /\ \/ nmPc' = "delete_profile" /\ UNCHANGED nmErr
       \/ \E e \in NmErrors : NmFail(<<"Failed to create NetworkManager client", e>>)
       \/ NmFail(<<"NetworkManager daemon is not running">>)
    /\ UNCHANGED <<now, prescan, lastScan, polled, stations, connEvents, heard, handlerOn, cell,
                   observed, profile>>
    /\ UNCHANGED <<scanVars, call, arg, ret, appVars>>

\* delete_exising_wifi_connect_ap_profile (network.rs:205, 360-375)
DeleteExistingProfile ==
    /\ nmPc = "delete_profile"
    /\ \/ nmPc' = "find_device" /\ UNCHANGED nmErr
       \/ \E e \in NmErrors : NmFail(<<e>>)
    /\ UNCHANGED <<now, prescan, lastScan, polled, stations, connEvents, heard, handlerOn, cell,
                   observed, profile>>
    /\ UNCHANGED <<scanVars, call, arg, ret, appVars>>

\* find_device and get_wifi_device_interface (network.rs:207-209); the latter panics
\* on a device without interface (.expect)
FindDevice ==
    /\ nmPc = "find_device"
    /\ \/ nmPc' = "scan_request" /\ UNCHANGED nmErr
       \/ \E e \in FindDeviceErrors : NmFail(<<e>>)
       \/ nmPc' = "panicked" /\ nmErr' = <<"No interface associated with device">>
    /\ UNCHANGED <<now, prescan, lastScan, polled, stations, connEvents, heard, handlerOn, cell,
                   observed, profile>>
    /\ UNCHANGED <<scanVars, call, arg, ret, appVars>>

\* scan_wifi: the timestamp and the start of the scan request (network.rs:304-307);
\* the future is suspended until the request is answered
ScanWifiRequest ==
    /\ nmPc = "scan_request"
    /\ prescan' = now
    /\ nmPc' = "scan_requesting"
    /\ UNCHANGED <<now, lastScan, polled, stations, connEvents, heard, handlerOn, cell, observed,
                   profile, nmErr>>
    /\ UNCHANGED <<scanVars, call, arg, ret, appVars>>

\* scan_wifi: request_scan_future resolves (network.rs:305-309)
ScanWifiRequested ==
    /\ nmPc = "scan_requesting"
    /\ \/ nmPc' = "scan_poll" /\ UNCHANGED nmErr
       \/ \E e \in NmErrors : NmFail(<<"Failed to request WiFi scan", e>>)
    /\ UNCHANGED <<now, prescan, lastScan, polled, stations, connEvents, heard, handlerOn, cell,
                   observed, profile>>
    /\ UNCHANGED <<scanVars, call, arg, ret, appVars>>

\* PollsLeft letting one more iteration run
PollsLeftInclusive(n) == n <= WIFI_SCAN_TIMEOUT_SECONDS

\* scan_wifi: the range of the for loop, after n iterations (network.rs:311)
PollsLeft(n) == n < WIFI_SCAN_TIMEOUT_SECONDS

\* scan_wifi: the test of a poll (network.rs:312)
ScanIsNewer(before, last) == before < last

\* scan_wifi: one poll (network.rs:312-314); with the break scan_wifi returns Ok(())
\* and init_network goes on
ScanWifiPoll ==
    /\ nmPc = "scan_poll"
    /\ polled' = Append(polled, [at |-> now, last |-> lastScan])
    /\ nmPc' = IF ScanIsNewer(prescan, lastScan) THEN "get_stations" ELSE "scan_sleep"
    /\ UNCHANGED <<now, prescan, lastScan, stations, connEvents, heard, handlerOn, cell, observed,
                   profile, nmErr>>
    /\ UNCHANGED <<scanVars, call, arg, ret, appVars>>

\* scan_wifi: the one-second sleep and the loop's next iteration (network.rs:311, 316);
\* when the range is used up scan_wifi returns Ok(()) (network.rs:319) and init_network
\* goes on
ScanWifiSleep ==
    /\ nmPc = "scan_sleep"
    /\ now' = now + Second
    /\ nmPc' = IF PollsLeft(Len(polled)) THEN "scan_poll" ELSE "get_stations"
    /\ UNCHANGED <<prescan, lastScan, polled, stations, connEvents, heard, handlerOn, cell, observed,
                   profile, nmErr>>
    /\ UNCHANGED <<scanVars, call, arg, ret, appVars>>

\* the device ends a scan while scan_wifi is suspended: at the request or in a sleep
DeviceScanDone ==
    /\ nmPc \in {"scan_requesting", "scan_sleep"}
    /\ ~ScanIsNewer(prescan, lastScan)
    /\ \E d \in ScanEnds : lastScan' = now + d
    /\ UNCHANGED <<nmPc, now, prescan, polled, stations, connEvents, heard, handlerOn, cell, observed,
                   profile, nmErr>>
    /\ UNCHANGED <<scanVars, call, arg, ret, appVars>>

\* get_nearby_stations (network.rs:215)
ReadStations ==
    /\ nmPc = "get_stations"
    /\ \E aps \in DeviceAccessPoints : stations' = GetNearbyStations(aps)
    /\ nmPc' = "create_portal"
    /\ UNCHANGED <<now, prescan, lastScan, polled, connEvents, heard, handlerOn, cell, observed,
                   profile, nmErr>>
    /\ UNCHANGED <<scanVars, call, arg, ret, appVars>>

\* the states finalize_active_connection_state's handler reports (network.rs:511-515)
TerminalStates == {"Activated", "Deactivated"}

\* HandlerReports sending every Activated or Deactivated state
HandlerReportsEach(cellFull, state) == state \in TerminalStates

\* the handler sends state: a terminal state, the sender still in the cell
\* (network.rs:511-520)
HandlerReports(cellFull, state) == cellFull /\ state \in TerminalStates

\* create_portal up to its first await: get_wifi_device_interface (it panics on a
\* device that has lost its interface), create_ap_connection, and the start of
\* add_and_activate_connection_future (network.rs:448-458)
CreatePortal ==
    /\ nmPc = "create_portal"
    /\ \/ /\ nmPc' = "panicked"
          /\ nmErr' = <<"No interface associated with device">>
       \/ /\ nmPc' = "portal_activating"
          /\ UNCHANGED nmErr
       \/ \E e \in NmErrors :
             NmFail(<<"Failed to create captive portal", "Failed to parse gateway address", e>>)
    /\ UNCHANGED <<now, prescan, lastScan, polled, stations, connEvents, heard, handlerOn, cell,
                   observed, profile>>
    /\ UNCHANGED <<scanVars, call, arg, ret, appVars>>

\* create_portal: add_and_activate_connection_future resolves (network.rs:457-460);
\* on Ok finalize_active_connection_state puts the sender in the cell and connects
\* the handler (network.rs:499-521)
PortalActivation ==
    /\ nmPc = "portal_activating"
    /\ \/ /\ nmPc' = "portal_wait"
          /\ handlerOn' = TRUE
          /\ cell' = TRUE
          /\ profile' \in {"present", "none"}
          /\ UNCHANGED nmErr
       \/ /\ \E e \in NmErrors :
                NmFail(<<"Failed to create captive portal",
                         "Failed to add and activate connection", e>>)
          /\ UNCHANGED <<handlerOn, cell, profile>>
    /\ UNCHANGED <<now, prescan, lastScan, polled, stations, connEvents, heard, observed>>
    /\ UNCHANGED <<scanVars, call, arg, ret, appVars>>

\* NetworkManager changes the state of the portal's connection, from the moment it
\* is asked to activate it; the handler is called with the state while it is
\* connected (network.rs:502-521). Which state follows which is NetworkManager's
\* matter and is left open.
NmStateChange ==
    /\ nmPc \in {"portal_activating", "portal_wait", "portal_delete", "ready"}
    /\ Len(connEvents) < MaxStateChanges
    /\ \E st \in ConnectionStates :
          /\ connEvents' = Append(connEvents, st)
          /\ heard' = IF handlerOn THEN Append(heard, st) ELSE heard
          /\ IF handlerOn /\ HandlerReports(cell, st)
             THEN cell' = FALSE /\ observed' = Some(st)
             ELSE UNCHANGED <<cell, observed>>
    /\ UNCHANGED <<nmPc, now, prescan, lastScan, polled, stations, handlerOn, profile, nmErr>>
    /\ UNCHANGED <<scanVars, call, arg, ret, appVars>>

\* finalize_active_connection_state: the receiver resolves, the handler is disconnected
\* (network.rs:523-529); create_portal's test of the state (network.rs:462-474)
PortalReceive ==
    /\ nmPc = "portal_wait"
    /\ IsSome(observed)
    /\ handlerOn' = FALSE
    /\ IF Unwrap(observed) = "Deactivated"
       THEN IF profile = "present"
            THEN nmPc' = "portal_delete" /\ UNCHANGED nmErr
            ELSE NmFail(<<"Failed to create captive portal",
                          "Failed to activate captive portal connection">>)
       ELSE nmPc' = "ready" /\ UNCHANGED nmErr
    /\ UNCHANGED <<now, prescan, lastScan, polled, stations, connEvents, heard, cell, observed,
                   profile>>
    /\ UNCHANGED <<scanVars, call, arg, ret, appVars>>

\* create_portal: delete_future of the profile of a deactivated connection
\* (network.rs:465-471)
PortalDelete ==
    /\ nmPc = "portal_delete"
    /\ \/ /\ profile' = "deleted"
          /\ NmFail(<<"Failed to create captive portal",
                      "Failed to activate captive portal connection">>)
       \/ /\ \E e \in NmErrors :
                NmFail(<<"Failed to create captive portal",
                         "Failed to delete captive portal connection after failing to activate",
                         e>>)
          /\ UNCHANGED profile
    /\ UNCHANGED <<now, prescan, lastScan, polled, stations, connEvents, heard, handlerOn, cell,
                   observed>>
    /\ UNCHANGED <<scanVars, call, arg, ret, appVars>>

NmInitSystem == ScanIdle /\ CallInit /\ NmInit /\ AppIdle

NmNext ==
    \/ CreateClient
    \/ DeleteExistingProfile
    \/ FindDevice
    \/ ScanWifiRequest
    \/ ScanWifiRequested
    \/ ScanWifiPoll
    \/ ScanWifiSleep
    \/ DeviceScanDone
    \/ ReadStations
    \/ CreatePortal
    \/ PortalActivation
    \/ NmStateChange
    \/ PortalReceive
    \/ PortalDelete

NmSpec == NmInitSystem /\ [][NmNext]_vars

(***************************************************************************)
(* main.rs, web.rs and the command loop of network.rs: main starts the     *)
(* network thread and waits for its report, then serves HTTP requests;     *)
(* each command endpoint sends a request with a oneshot responder to the   *)
(* network thread and awaits the answer.                                   *)
(***************************************************************************)
\* how many HTTP requests a behaviour holds
MaxRequests == 2

\* the routes of the server (web.rs:50-57)
Endpoints ==
    { "/", "/check-connectivity", "/list-connections", "/list-wifi-networks",
      "/shutdown", "/stop", "/scan" }

\* the command a handler sends (web.rs:98-130)
CommandOf(endpoint) ==
    CASE endpoint = "/check-connectivity" -> "CheckConnectivity"
      [] endpoint = "/list-connections"   -> "ListConnections"
      [] endpoint = "/list-wifi-networks" -> "ListWiFiNetworks"
      [] endpoint = "/shutdown"           -> "Shutdown"
      [] endpoint = "/stop"               -> "Stop"

\* format!("Failed to {}", action) with send_command's action (web.rs:149-155, 176)
FailedTo(command) ==
    CASE command = "CheckConnectivity" -> "Failed to check connectivity"
      [] command = "ListConnections"   -> "Failed to list actions"
      [] command = "ListWiFiNetworks"  -> "Failed to list WiFi networks"
      [] command = "Shutdown"          -> "Failed to shutdown"
      [] command = "Stop"              -> "Failed to stop"

\* Result values: Ok of a response of some kind, Err of a context chain
Ok(kind) == [ok |-> TRUE, kind |-> kind, chain |-> <<>>]
Err(chain) == [ok |-> FALSE, kind |-> "", chain |-> chain]

\* the results of a command's operation on the network thread (network.rs:253-299)
OperationResults(command) ==
    CASE command = "CheckConnectivity" ->
            {Ok("CheckConnectivity"),
             Err(<<"Failed to execute check connectivity", "glib error">>)}
      [] command = "ListConnections"  -> {Ok("ListConnections")}
      [] command = "ListWiFiNetworks" -> {Ok("ListWiFiNetworks")}
      [] command = "Shutdown"         -> {Ok("Shutdown"), Err(<<"glib error">>)}
      [] command = "Stop" ->
            {Ok("Stop"), Err(<<"glib error">>),
             Err(<<"Failed to delete captive portal connection profile", "glib error">>)}

\* the commands the loop answers in its callback (network.rs:165-170) and the ones
\* it spawns a future for (network.rs:162-164, 171-176).  web.rs sends a Shutdown
\* command that the match of network.rs has no arm for: the loop may answer it in
\* either of its two ways.
Synchronous == {"ListConnections", "ListWiFiNetworks"}
Spawned == {"CheckConnectivity", "Stop"}

\* what scan() returns to the /scan handler: the stations, or the chain of the
\* step that failed (scan.rs:27-48 and the functions it calls)
ScanResults ==
    {Ok("Stations")}
    \cup { Err(<<e, cause>>) : e \in SocketErrors \cup McastSocketErrors, cause \in SendErrors }
    \cup { Err(<<"Failed to get interfaces", "Failed to receive get interface response",
                 "Failed to receive nl80211 command response", e>>) : e \in RecvErrors }
    \cup { Err(<<"Interface not found">>), Err(<<"No scan results received">>) }
    \cup { Err(<<"Failed to trigger scan", "Failed to send trigger scan message", e>>) :
               e \in SendErrors }
    \cup { Err(<<"Failed to trigger scan", "Failed to receive trigger scan acknowledgement",
                 e>>) : e \in RecvErrors }
    \cup { Err(<<"Failed to receive new scan results notification", e>>) : e \in RecvErrors }
    \cup { Err(<<"Failed to send get scan results message", e>>) : e \in SendErrors }
    \cup { Err(<<"Failed to receive get scan results response",
                 "Failed to receive nl80211 command response", e>>) : e \in RecvErrors }

\* what init_network returns: the state, or the chain of the step that failed
\* (network.rs:202-231 and the functions it calls)
InitResults ==
    { Ok("NetworkState"),
      Err(<<"NetworkManager daemon is not running">>),
      Err(<<"Failed to create captive portal", "Failed to activate captive portal connection">>) }
    \cup { Err(<<"Failed to create NetworkManager client", e>>) : e \in NmErrors }
    \cup { Err(<<e>>) : e \in NmErrors \cup FindDeviceErrors }
    \cup { Err(<<"Failed to request WiFi scan", e>>) : e \in NmErrors }
    \cup { Err(<<"Failed to create captive portal", c, e>>) :
               c \in { "Failed to parse gateway address",
                       "Failed to add and activate connection",
                       "Failed to delete captive portal connection after failing to activate" },
               e \in NmErrors }

\* a new oneshot channel for a request carrying command (web.rs:147)
NewResponder(command) == [command |-> command, sends |-> 0, value |-> None]

\* Respond answering on the first responder not yet answered
RespondFirstOpen(resp, rid, value) ==
    LET open == { i \in 1..Len(resp) : resp[i].sends = 0 }
        first == IF open = {} THEN rid ELSE CHOOSE i \in open : \A j \in open : i <= j
    IN [resp EXCEPT ![first] = [@ EXCEPT !.sends = @ + 1, !.value = Some(value)]]

\* respond (network.rs:249-251): the value goes to the request's own responder
Respond(resp, rid, value) ==
    [resp EXCEPT ![rid] = [@ EXCEPT !.sends = @ + 1, !.value = Some(value)]]

\* InitializedResult taking a closed channel for a success
InitializedResultLenient(chan) ==
    IF chan.state = "closed" THEN Ok("")
    ELSE IF Unwrap(chan.value).ok THEN Ok("")
    ELSE Err(<<"Failed to initialize network">> \o Unwrap(chan.value).chain)

\* receive_network_initialized (main.rs:67-77) on the channel's state
InitializedResult(chan) ==
    IF chan.state = "closed"
    THEN Err(<<"Failed to initialize network",
               "Failed to receive network initialization response", "channel closed">>)
    ELSE IF Unwrap(chan.value).ok THEN Ok("")
    ELSE Err(<<"Failed to initialize network">> \o Unwrap(chan.value).chain)

\* receive_network_thread_response (web.rs:166-177) on the value received
ThreadResponse(value, command) ==
    IF value.ok THEN value ELSE Err(<<FailedTo(command)>> \o value.chain)

\* AppResponse::into_response (web.rs:188-212)
IntoResponse(outcome) ==
    IF outcome.ok THEN [status |-> 200, body |-> <<outcome.kind>>]
    ELSE [status |-> 500, body |-> outcome.chain]

\* ShutdownOptAfterTake leaving the sender in the option
ShutdownOptKept(opt) == opt

\* shutdown_opt after take() (web.rs:138)
ShutdownOptAfterTake(opt) == FALSE

AppInit ==
    /\ mainPc = "await_init"
    /\ mainErr = <<>>
    /\ netPc = "init"
    /\ initChan = EmptyChannel
    /\ queue = <<>>
    /\ responders = <<>>
    /\ futures = {}
    /\ handlers = <<>>
    /\ shutdownOpt = FALSE
    /\ shutdownSends = 0
    /\ signalled = FALSE
    /\ sigPc = "off"
    /\ stopRid = 0

\* the network thread: init_network_respond and the expect on its result
\* (network.rs:154-156, 186-200), or a panic before anything is reported
NetworkInit ==
    /\ netPc = "init"
    /\ \/ \E res \in InitResults :
            /\ initChan' = SentOn(res)
            /\ netPc' = IF res.ok THEN "looping" ELSE "panicked"
       \/ /\ initChan' = ClosedChannel
          /\ netPc' = "panicked"
    /\ UNCHANGED <<mainPc, mainErr, queue, responders, futures, handlers, shutdownOpt,
                   shutdownSends, signalled, sigPc, stopRid>>
    /\ UNCHANGED <<scanVars, call, arg, ret, nmVars>>

\* main: receive_network_initialized resolves (main.rs:62); on Ok run_web_loop starts
\* the server (main.rs:64, web.rs:42-67)
MainReceiveInitialized ==
    /\ mainPc = "await_init"
    /\ initChan # EmptyChannel
    /\ IF InitializedResult(initChan).ok
       THEN /\ mainPc' = "serving"
            /\ shutdownOpt' = TRUE
            /\ sigPc' = "select"
            /\ UNCHANGED mainErr
       ELSE /\ mainPc' = "returned_err"
            /\ mainErr' = InitializedResult(initChan).chain
            /\ UNCHANGED <<shutdownOpt, sigPc>>
    /\ UNCHANGED <<netPc, initChan, queue, responders, futures, handlers, shutdownSends,
                   signalled, stopRid>>
    /\ UNCHANGED <<scanVars, call, arg, ret, nmVars>>

\* the server accepts requests until its shutdown future has completed
Accepting == mainPc = "serving" /\ sigPc # "done"

\* a request to a command endpoint: send_command up to its await (web.rs:143-162)
HttpCommand ==
    /\ Accepting
    /\ Len(handlers) < MaxRequests
    /\ \E ep \in Endpoints \ {"/", "/scan"} :
          /\ responders' = Append(responders, NewResponder(CommandOf(ep)))
          /\ queue' = Append(queue, Len(responders) + 1)
          /\ handlers' = Append(handlers, [endpoint |-> ep, pc |-> "await_response",
                                           rid |-> Len(responders) + 1, response |-> None])
    /\ UNCHANGED <<mainPc, mainErr, netPc, initChan, futures, shutdownOpt, shutdownSends,
                   signalled, sigPc, stopRid>>
    /\ UNCHANGED <<scanVars, call, arg, ret, nmVars>>

\* a request to "/" (web.rs:94-96)
HttpUsage ==
    /\ Accepting
    /\ Len(handlers) < MaxRequests
    /\ handlers' = Append(handlers, [endpoint |-> "/", pc |-> "responded", rid |-> 0,
                                     response |-> Some([status |-> 200, body |-> <<"usage">>])])
    /\ UNCHANGED <<mainPc, mainErr, netPc, initChan, queue, responders, futures, shutdownOpt,
                   shutdownSends, signalled, sigPc, stopRid>>
    /\ UNCHANGED <<scanVars, call, arg, ret, nmVars>>

\* a request to /scan (web.rs:132-133): the handler calls scan() and is suspended
\* in it
HttpScan ==
    /\ Accepting
    /\ Len(handlers) < MaxRequests
    /\ handlers' = Append(handlers, [endpoint |-> "/scan", pc |-> "scanning", rid |-> 0,
                                     response |-> None])
    /\ UNCHANGED <<mainPc, mainErr, netPc, initChan, queue, responders, futures, shutdownOpt,
                   shutdownSends, signalled, sigPc, stopRid>>
    /\ UNCHANGED <<scanVars, call, arg, ret, nmVars>>

\* scan() ends in a /scan handler (web.rs:133-134): the stations are rendered, an Err
\* is unwrapped, or scan() itself panics (scan.rs:53-56); a scan() that waits for
\* the kernel for ever leaves the handler suspended
ScanReturns ==
    /\ \E i \in 1..Len(handlers) :
          /\ handlers[i].pc = "scanning"
          /\ \/ \E res \in ScanResults :
                   handlers' = [handlers EXCEPT ![i] =
                      IF res.ok
                      THEN [@ EXCEPT !.pc = "responded",
                                     !.response = Some([status |-> 200, body |-> <<res.kind>>])]
                      ELSE [@ EXCEPT !.pc = "panicked"]]
             \/ handlers' = [handlers EXCEPT ![i] = [@ EXCEPT !.pc = "panicked"]]
    /\ UNCHANGED <<mainPc, mainErr, netPc, initChan, queue, responders, futures, shutdownOpt,
                   shutdownSends, signalled, sigPc, stopRid>>
    /\ UNCHANGED <<scanVars, call, arg, ret, nmVars>>

\* the loop's callback on one request (network.rs:158-179): a synchronous command is
\* answered, the others are spawned
LoopReceive ==
    /\ netPc = "looping"
    /\ queue # <<>>
    /\ queue' = Tail(queue)
    /\ LET rid == Head(queue) IN
       \/ /\ responders[rid].command \notin Spawned
          /\ \E res \in OperationResults(responders[rid].command) :
                responders' = Respond(responders, rid, res)
          /\ UNCHANGED futures
       \/ /\ responders[rid].command \notin Synchronous
          /\ futures' = futures \cup {rid}
          /\ UNCHANGED responders
    /\ UNCHANGED <<mainPc, mainErr, netPc, initChan, handlers, shutdownOpt, shutdownSends,
                   signalled, sigPc, stopRid>>
    /\ UNCHANGED <<scanVars, call, arg, ret, nmVars>>

\* execute_and_respond (network.rs:241-247): a spawned future completes
FutureCompletes ==
    /\ netPc = "looping"
    /\ \E rid \in futures :
          /\ futures' = futures \ {rid}
          /\ \E res \in OperationResults(responders[rid].command) :
                responders' = Respond(responders, rid, res)
    /\ UNCHANGED <<mainPc, mainErr, netPc, initChan, queue, handlers, shutdownOpt,
                   shutdownSends, signalled, sigPc, stopRid>>
    /\ UNCHANGED <<scanVars, call, arg, ret, nmVars>>

\* a handler's send_command resolves and the response is built (web.rs:161-163,
\* 188-212); the /shutdown handler goes on to issue_shutdwon
HandlerReceives ==
    /\ \E i \in 1..Len(handlers) :
          /\ handlers[i].pc = "await_response"
          /\ IsSome(responders[handlers[i].rid].value)
          /\ LET r == responders[handlers[i].rid]
                 response == IntoResponse(ThreadResponse(Unwrap(r.value), r.command))
             IN handlers' = [handlers EXCEPT ![i] =
                    [@ EXCEPT !.response = Some(response),
                              !.pc = IF handlers[i].endpoint = "/shutdown"
                                     THEN "issue_shutdown" ELSE "responded"]]
    /\ UNCHANGED <<mainPc, mainErr, netPc, initChan, queue, responders, futures, shutdownOpt,
                   shutdownSends, signalled, sigPc, stopRid>>
    /\ UNCHANGED <<scanVars, call, arg, ret, nmVars>>

\* issue_shutdwon (web.rs:137-141) and the return of the /shutdown handler
IssueShutdown ==
    /\ \E i \in 1..Len(handlers) :
          /\ handlers[i].pc = "issue_shutdown"
          /\ handlers' = [handlers EXCEPT ![i] = [@ EXCEPT !.pc = "responded"]]
    /\ shutdownOpt' = ShutdownOptAfterTake(shutdownOpt)
    /\ shutdownSends' = IF shutdownOpt THEN shutdownSends + 1 ELSE shutdownSends
    /\ UNCHANGED <<mainPc, mainErr, netPc, initChan, queue, responders, futures, signalled,
                   sigPc, stopRid>>
    /\ UNCHANGED <<scanVars, call, arg, ret, nmVars>>

\* a process signal is delivered
ProcessSignal ==
    /\ mainPc = "serving"
    /\ ~signalled
    /\ signalled' = TRUE
    /\ UNCHANGED <<mainPc, mainErr, netPc, initChan, queue, responders, futures, handlers,
                   shutdownOpt, shutdownSends, sigPc, stopRid>>
    /\ UNCHANGED <<scanVars, call, arg, ret, nmVars>>

\* shutdown_signal: the select resolves and the Stop command is sent (web.rs:79-89)
ShutdownSelected ==
    /\ sigPc = "select"
    /\ shutdownSends > 0 \/ signalled
    /\ responders' = Append(responders, NewResponder("Stop"))
    /\ queue' = Append(queue, Len(responders) + 1)
    /\ stopRid' = Len(responders) + 1
    /\ sigPc' = "await_stop"
    /\ UNCHANGED <<mainPc, mainErr, netPc, initChan, futures, handlers, shutdownOpt,
                   shutdownSends, signalled>>
    /\ UNCHANGED <<scanVars, call, arg, ret, nmVars>>

\* shutdown_signal: the Stop command is answered and the future completes
\* (web.rs:89-91)
ShutdownStopAnswered ==
    /\ sigPc = "await_stop"
    /\ IsSome(responders[stopRid].value)
    /\ sigPc' = "done"
    /\ UNCHANGED <<mainPc, mainErr, netPc, initChan, queue, responders, futures, handlers,
                   shutdownOpt, shutdownSends, signalled, stopRid>>
    /\ UNCHANGED <<scanVars, call, arg, ret, nmVars>>

\* the graceful server finishes when its shutdown future is complete and no handler
\* runs (web.rs:63-67); main returns (main.rs:64)
ServerFinishes ==
    /\ mainPc = "serving"
    /\ sigPc = "done"
    /\ \A i \in 1..Len(handlers) : handlers[i].pc \in {"responded", "panicked"}
    /\ mainPc' = "returned_ok"
    /\ UNCHANGED <<mainErr, netPc, initChan, queue, responders, futures, handlers,
                   shutdownOpt, shutdownSends, signalled, sigPc, stopRid>>
    /\ UNCHANGED <<scanVars, call, arg, ret, nmVars>>

AppInitSystem == ScanIdle /\ CallInit /\ NmIdle /\ AppInit

AppNext ==
    \/ NetworkInit
    \/ MainReceiveInitialized
    \/ HttpCommand
    \/ HttpUsage
    \/ HttpScan
    \/ ScanReturns
    \/ LoopReceive
    \/ FutureCompletes
    \/ HandlerReceives
    \/ IssueShutdown
    \/ ProcessSignal
    \/ ShutdownSelected
    \/ ShutdownStopAnswered
    \/ ServerFinishes

AppSpec == AppInitSystem /\ [][AppNext]_vars

(***************************************************************************)
(* Vocabulary of the properties.                                           *)
(***************************************************************************)
Range(seq) == { seq[i] : i \in 1..Len(seq) }

IsPrefix(a, b) == Len(a) <= Len(b) /\ a = SubSeq(b, 1, Len(a))

RECURSIVE Flatten(_)
Flatten(batches) ==
    IF batches = <<>> THEN <<>> ELSE Head(batches) \o Flatten(Tail(batches))

\* the messages that arrive before the first Done marker
RECURSIVE BeforeDone(_)
BeforeDone(msgs) ==
    IF msgs = <<>> \/ Head(msgs).nl_type = "Done" THEN <<>>
    ELSE <<Head(msgs)>> \o BeforeDone(Tail(msgs))

HasDone(batch) == \E i \in 1..Len(batch) : batch[i].nl_type = "Done"

\* the number of batches up to and including the first that holds a Done marker
FirstDoneBatch(batches) ==
    IF \E i \in 1..Len(batches) : HasDone(batches[i])
    THEN CHOOSE i \in 1..Len(batches) :
            HasDone(batches[i]) /\ \A j \in 1..(i - 1) : ~HasDone(batches[j])
    ELSE 0

\* the non-empty extractor results of msgs, in order
RECURSIVE Collected(_, _)
Collected(kind, msgs) ==
    IF msgs = <<>> THEN <<>>
    ELSE Extract(kind, Head(msgs)) \o Collected(kind, Tail(msgs))

\* recv_all has returned Ok for the interface dump, and no later request is sent yet
InterfacesReturned ==
    pc = "trigger_send" \/ (pc = "failed" /\ err = <<"Interface not found">>)

\* the order of the steps of one scan() call
ScanOrder ==
    << "interface dump sent", "interface dump drained", "interface matched",
       "trigger request sent", "trigger acknowledgement received", "event channel joined",
       "completion notification received", "scan dump sent", "scan dump drained",
       "success returned" >>

\* the scan-result entries of the environment that are well formed, with the station
\* each stands for; every other message of the environment is not a station
ExpectedStation(msg) ==
    IF msg = GoodA THEN <<[ssid |-> NetA, quality |-> 83]>>
    ELSE IF msg = GoodA2 THEN <<[ssid |-> NetA, quality |-> 3]>>
    ELSE IF msg = GoodB THEN <<[ssid |-> NetB, quality |-> 100]>>
    ELSE <<>>

RECURSIVE ExpectedStations(_)
ExpectedStations(msgs) ==
    IF msgs = <<>> THEN <<>>
    ELSE ExpectedStation(Head(msgs)) \o ExpectedStations(Tail(msgs))

BadEntries ==
    {NoBss, MalformedBss, NoSignal, ShortSignal, NoIes, NotUtf8}

(***************************************************************************)
(* C1: during the completion wait, a batch of notifications none of which  *)
(* is "new scan results" is ignored: once scan() has received such a batch *)
(* it is still waiting on the event channel; the batch does not make it    *)
(* fail.                                                                   *)
(***************************************************************************)
C1_IgnoredBatchKeepsWaiting ==
    [][ ( /\ pc = "complete_scan_recv"
          /\ mcast # <<>>
          /\ mcast' = Tail(mcast)
          /\ \A i \in 1..Len(Head(mcast)) : Head(mcast)[i].cmd # "NewScanResults" )
        => pc' = "complete_scan_recv" ]_vars

(***************************************************************************)
(* C2: the completion wait is bounded: scan() is never still suspended on  *)
(* the event channel once more than the wait bound (45 seconds) has passed *)
(* without a notification; it has returned a timeout error by then.        *)
(***************************************************************************)
C2_WaitIsBounded ==
    pc = "complete_scan_recv" => elapsed <= WIFI_SCAN_TIMEOUT_SECONDS

(***************************************************************************)
(* C3: the steps of one scan() call happen in the fixed order ScanOrder,   *)
(* each after its predecessor has completed, and success is returned only  *)
(* after the last of them.                                                 *)
(***************************************************************************)
C3_StepsInOrder ==
    /\ IsPrefix(log, ScanOrder)
    /\ pc = "done" <=> log = ScanOrder

C3_Witness == pc = "done" /\ log = ScanOrder /\ Len(result) > 0

(***************************************************************************)
(* C4: when the kernel answers the trigger request with an error instead   *)
(* of an acknowledgement, scan() fails; it does not go on to join the      *)
(* event channel, wait for completion or request the scan dump.            *)
(***************************************************************************)
C4_RejectedTriggerFails ==
    (IsSome(ack) /\ \E i \in 1..Len(Unwrap(ack)) : Unwrap(ack)[i].kind = "Err")
        => pc = "failed"

(***************************************************************************)
(* C5: when the enumeration has returned and none of its interfaces has    *)
(* the requested name, scan() has failed with "Interface not found",       *)
(* having enumerated once, sent no trigger request and opened no event     *)
(* channel.                                                                *)
(***************************************************************************)
C5_NoMatchIsInterfaceNotFound ==
    ( /\ "interface dump drained" \in Range(log)
      /\ \A i \in 1..Len(ifaces) : ifaces[i].name # Requested )
        => /\ pc = "failed"
           /\ err = <<"Interface not found">>
           /\ sent = <<"GetInterface">>
           /\ ~mcastOpen
           /\ "event channel joined" \notin Range(log)

C5_Witness ==
    /\ pc = "failed"
    /\ err = <<"Interface not found">>
    /\ Len(ifaces) > 0

(***************************************************************************)
(* C6: when a send or a receive of any step fails, scan() returns that     *)
(* failure as an error value: it has not panicked and it returns no        *)
(* station list.                                                           *)
(***************************************************************************)
C6_SocketFailureIsReturned ==
    failedOp \in {"send", "recv"}
        => /\ pc = "failed"
           /\ err # <<>>
           /\ result = <<>>

(***************************************************************************)
(* C7: a message of the interface dump that does not decode into an        *)
(* Interface aborts scan() with an error; it is never skipped: when the    *)
(* enumeration is over and such a message was in it, scan() has failed.    *)
(***************************************************************************)
C7_UndecodableInterfaceAborts ==
    (dropped > 0 /\ "interface dump drained" \in Range(log)) => pc = "failed"

(***************************************************************************)
(* C8: a scan-result entry that does not decode (no or malformed BSS       *)
(* attribute, no or wrong-width signal, no information elements, SSID not  *)
(* UTF-8) drops only that entry: scan() succeeds with exactly the stations *)
(* of the well-formed entries of the dump, and once the dump is requested  *)
(* scan() fails only on a failed receive.                                  *)
(***************************************************************************)
C8_BadEntryDropsOnlyItself ==
    /\ pc = "done" => result = ExpectedStations(BeforeDone(Flatten(stream)))
    /\ (pc = "failed" /\ "scan dump sent" \in Range(log)) => failedOp = "recv"

C8_Witness ==
    /\ pc = "done"
    /\ Len(result) >= 2
    /\ \E m \in BadEntries : m \in Range(fcalls)
    /\ NotUtf8 \in Range(fcalls)

(***************************************************************************)
(* C9: recv_all returns exactly the non-empty extractor results of the     *)
(* messages that arrive before the first Done marker, over all batches and *)
(* in arrival order; while it drains, its items are those of the messages  *)
(* passed to the extractor so far.                                         *)
(***************************************************************************)
C9_RecvAllCollectsInOrder ==
    /\ InterfacesReturned => ifaces = Collected("iface", BeforeDone(Flatten(stream)))
    /\ pc = "done" => result = Collected("scan", BeforeDone(Flatten(stream)))
    /\ pc = "get_interfaces_recv"
         => /\ items = Collected("iface", fcalls)
            /\ IsPrefix(fcalls, BeforeDone(Flatten(stream)))
    /\ pc = "get_scan_recv"
         => /\ items = Collected("scan", fcalls)
            /\ IsPrefix(fcalls, BeforeDone(Flatten(stream)))

C9_Witness ==
    /\ pc = "done"
    /\ reads >= 2
    /\ Len(result) >= 2
    /\ Len(fcalls) > Len(result)
    /\ \E i \in 1..Len(ifaces) : ifaces[i].name # ifaces[1].name

(***************************************************************************)
(* C10: once recv_all has seen a Done marker it reads the socket no more,  *)
(* so the batches queued behind it stay queued, and it passes to the       *)
(* extractor no message that follows Done in the same batch.               *)
(***************************************************************************)
C10_NothingAfterDone ==
    (InterfacesReturned \/ pc = "done")
        => /\ reads = FirstDoneBatch(stream)
           /\ ctrl = SubSeq(stream, reads + 1, Len(stream))
           /\ fcalls = BeforeDone(Flatten(stream))

C10_Witness ==
    /\ pc = "done"
    /\ ctrl # <<>>
    /\ Len(Flatten(SubSeq(stream, 1, reads))) > Len(fcalls) + 1

(***************************************************************************)
(* C11: when scan() has returned, with success or with any error, the      *)
(* control socket and the event socket the call opened are both closed.    *)
(***************************************************************************)
C11_SocketsClosedOnReturn ==
    pc \in Terminal => (~ctrlOpen /\ ~mcastOpen)

C11_Witness ==
    /\ pc = "failed"
    /\ "event channel joined" \in Range(log)
    /\ ~ctrlOpen
    /\ ~mcastOpen

(***************************************************************************)
(* C12: the station list returned by scan() has no two entries with the    *)
(* same SSID: of several BSS entries with one SSID only the one of highest *)
(* quality is returned.                                                    *)
(***************************************************************************)
C12_NoDuplicateSsid ==
    pc = "done" =>
        \A i, j \in 1..Len(result) : i # j => result[i].ssid # result[j].ssid

(***************************************************************************)
(* C13: the station list returned by scan() is ordered descending by       *)
(* quality and, among equal qualities, descending by SSID, whatever the    *)
(* arrival order of the dump's messages.                                   *)
(***************************************************************************)
C13_SortedDescending ==
    pc = "done" =>
        \A i \in 1..(Len(result) - 1) : KeyLeq(result[i + 1], result[i])

(***************************************************************************)
(* C14: no station returned by scan(), and no station produced by          *)
(* get_nearby_stations, has an empty SSID: a hidden network, an entry      *)
(* without an SSID element and an entry whose SSID element is empty give   *)
(* no station.                                                             *)
(***************************************************************************)
\* the dump entries whose SSID comes out empty
UnnamedEntries == {Hidden, NoSsidElement, TruncatedIe}

C14_NoEmptySsid ==
    /\ pc = "done" =>
          /\ \A i \in 1..Len(result) : result[i].ssid # <<>>
          /\ Len(result) <=
                Cardinality({ i \in 1..Len(fcalls) : fcalls[i] \notin UnnamedEntries })
    /\ (call = "get_nearby_stations" /\ IsSome(ret)) =>
          \A i \in 1..Len(Unwrap(ret)) : Unwrap(ret)[i].ssid # <<>>

C14_Witness ==
    /\ pc = "done"
    /\ Hidden \in Range(fcalls)
    /\ NoSsidElement \in Range(fcalls)
    /\ result # <<>>

(***************************************************************************)
(* C15: every station returned by scan() comes from one message of the     *)
(* dump that has a signal attribute and an SSID that is valid text; its    *)
(* ssid is that text and its quality is the quality model applied to that  *)
(* signal. The stations correspond one-to-one, in order, to such messages. *)
(***************************************************************************)
\* station st is what message msg describes
SourcedFrom(st, msg) ==
    /\ IsSome(GetPayload(msg))
    /\ LET bss == GetNestedAttributes(Unwrap(GetPayload(msg)).attrs, "Bss") IN
       /\ IsSome(bss)
       /\ IsSome(GetAttribute(Unwrap(bss), "SignalMbm"))
       /\ IsSome(GetAttribute(Unwrap(bss), "InformationElements"))
       /\ LET mbm  == PayloadAsI32(Unwrap(GetAttribute(Unwrap(bss), "SignalMbm")).payload)
              text == ExtractSsid(Unwrap(GetAttribute(Unwrap(bss), "InformationElements")).payload)
          IN  /\ IsSome(mbm)
              /\ ValidUtf8(text)
              /\ st.ssid = text
              /\ st.quality = DbmLevelToQuality(Unwrap(mbm))

C15_StationsComeFromMessages ==
    pc = "done" =>
        \E f \in [1..Len(result) -> 1..Len(fcalls)] :
            /\ \A i \in 1..(Len(result) - 1) : f[i] < f[i + 1]
            /\ \A i \in 1..Len(result) : SourcedFrom(result[i], fcalls[f[i]])

C15_Witness ==
    /\ pc = "done"
    /\ NoSignal \in Range(fcalls)
    /\ ShortSignal \in Range(fcalls)
    /\ Len(result) = 2

(***************************************************************************)
(* C16: on a buffer that starts with a well-formed chain of information    *)
(* elements holding an SSID element, extract_ssid returns the payload of   *)
(* the first SSID element, whatever follows that element.                  *)
(***************************************************************************)
\* buf is a concatenation of whole elements (id, length, length bytes)
RECURSIVE IsChain(_)
IsChain(buf) ==
    \/ buf = <<>>
    \/ /\ Len(buf) >= 2
       /\ 2 + buf[2] <= Len(buf)
       /\ IsChain(SubSeq(buf, 3 + buf[2], Len(buf)))

\* the elements of a chain
RECURSIVE ChainElements(_)
ChainElements(buf) ==
    IF buf = <<>> THEN <<>>
    ELSE <<[id |-> buf[1], data |-> SubSeq(buf, 3, 2 + buf[2])]>>
            \o ChainElements(SubSeq(buf, 3 + buf[2], Len(buf)))

\* the chain's only SSID element is its last element
EndsAtFirstSsid(elems) ==
    /\ elems # <<>>
    /\ elems[Len(elems)].id = WLAN_EID_SSID
    /\ \A i \in 1..(Len(elems) - 1) : elems[i].id # WLAN_EID_SSID

C16_FirstSsidElementWins ==
    (call = "extract_ssid" /\ IsSome(ret)) =>
        \A k \in 0..Len(arg) :
            LET pre == SubSeq(arg, 1, k) IN
            (IsChain(pre) /\ EndsAtFirstSsid(ChainElements(pre))) =>
                Unwrap(ret) = ChainElements(pre)[Len(ChainElements(pre))].data

C16_Witness ==
    /\ call = "extract_ssid"
    /\ arg = ExampleBuffer
    /\ ret = Some(MyNet)

(***************************************************************************)
(* C17: extract_ssid returns on every buffer, and returns the empty result *)
(* on the empty buffer and on a buffer where, after whole elements none of *)
(* which is an SSID element, fewer than 2 bytes are left or the next       *)
(* element declares more bytes than are left.                              *)
(***************************************************************************)
\* no whole element starts buf
RunsOut(buf) == Len(buf) < 2 \/ 2 + buf[2] > Len(buf)

C17_NotFoundWhenBufferRunsOut ==
    /\ (call = "extract_ssid" /\ ret = None) => ENABLED CallExtractSsid
    /\ (call = "extract_ssid" /\ IsSome(ret)) =>
          /\ \E i, j \in 0..Len(arg) : Unwrap(ret) = SubSeq(arg, i + 1, j)
          /\ arg = <<>> => Unwrap(ret) = <<>>
          /\ \A k \in 0..Len(arg) :
                LET pre == SubSeq(arg, 1, k) IN
                ( /\ IsChain(pre)
                  /\ \A i \in 1..Len(ChainElements(pre)) :
                        ChainElements(pre)[i].id # WLAN_EID_SSID
                  /\ RunsOut(SubSeq(arg, k + 1, Len(arg))) )
                => Unwrap(ret) = <<>>

C17_Witness ==
    /\ call = "extract_ssid"
    /\ arg = <<1, 1, 65, 0, 2, 65>>
    /\ ret = Some(<<>>)

(***************************************************************************)
(* C18: dbm_level_to_quality(s) is 100 for s >= -4000, 0 for s <= -10000   *)
(* and otherwise 100 - 100*|s/100 + 40|/60 = (s + 10000)/60 rounded to the *)
(* nearest integer, a half going away from zero; it is within 0..100.      *)
(***************************************************************************)
C18_QualityIsExactRound ==
    (call = "dbm_level_to_quality" /\ IsSome(ret)) =>
        /\ Unwrap(ret) \in 0..100
        /\ Unwrap(ret) = IF arg >= -4000 THEN 100
                         ELSE IF arg <= -10000 THEN 0
                         ELSE (2 * (arg + 10000) + 60) \div 120

\* how far the computed quality is from the reference: never more than a half
QualityIsNearest ==
    (call = "dbm_level_to_quality" /\ IsSome(ret)) =>
        LET q == Unwrap(ret) IN
        /\ q \in 0..100
        /\ arg >= -4000 => q = 100
        /\ arg <= -10000 => q = 0
        /\ (-10000 < arg /\ arg < -4000) =>
              (60 * q - (arg + 10000) <= 30 /\ (arg + 10000) - 60 * q <= 30)

(***************************************************************************)
(* C19: dbm_level_to_quality is monotonic: a <= b implies                  *)
(* quality(a) <= quality(b).                                               *)
(***************************************************************************)
\* how far above a signal the signals it is compared with reach
MonotonicWindow == 61

\* the signals every signal is compared with
SparseSignals ==
    {-2147483647 - 1, -2147483647, -1000000, -10000 - SignalMargin, -10000, -9999, -7000,
     -4001, -4000, -4000 + SignalMargin, -1, 0, 1, 4000, 1000000, 2147483647}

ComparedWith(a) ==
    SparseSignals \cup
        (IF a \in (-10000 - SignalMargin)..(-4000 + SignalMargin)
         THEN (a + 1)..(a + MonotonicWindow) ELSE {})

C19_QualityIsMonotonic ==
    (call = "dbm_level_to_quality" /\ IsSome(ret)) =>
        \A b \in ComparedWith(arg) :
            /\ arg <= b => Unwrap(ret) <= DbmLevelToQuality(b)
            /\ b <= arg => DbmLevelToQuality(b) <= Unwrap(ret)

C19_Witness ==
    /\ call = "dbm_level_to_quality"
    /\ arg = -7000
    /\ ret = Some(50)
    /\ DbmLevelToQuality(-7001) = 50
    /\ DbmLevelToQuality(-6970) = 50
    /\ DbmLevelToQuality(-6969) = 51

(***************************************************************************)
(* C20: on the control socket, against a kernel that keeps to the          *)
(* protocol, the response to each request is consumed (to its Done marker, *)
(* or its acknowledgement) before the next request is sent: a request is   *)
(* sent with nothing unread on the socket, at most one request is          *)
(* unanswered at any time, and what is read after a request are messages   *)
(* of the response to that request.                                        *)
(***************************************************************************)
SendSteps == {"get_interfaces_send", "trigger_send", "get_scan_send"}

Answers == {"interface dump drained", "trigger acknowledgement received", "scan dump drained"}

\* the requests sent whose response has not been consumed
Outstanding == Len(sent) - Cardinality(Range(log) \cap Answers)

\* the responses the kernel may give to a request
ResponsesTo(request) ==
    CASE request = "GetInterface" -> ConformingIfaceDumps
      [] request = "TriggerScan"  -> TriggerReplies
      [] request = "GetScan"      -> ConformingScanDumps

C20_NoPipelining ==
    /\ pc \in SendSteps => (ctrl = <<>> /\ Outstanding = 0)
    /\ Outstanding \in {0, 1}
    /\ sent # <<>> =>
          /\ stream \in ResponsesTo(sent[Len(sent)])
          /\ sent[Len(sent)] # "TriggerScan" => IsPrefix(fcalls, Flatten(stream))
    /\ IsSome(ack) => <<Unwrap(ack)>> \in TriggerReplies
    /\ pc = "done" => (ctrl = <<>> /\ result = Collected("scan", BeforeDone(Flatten(stream))))

C20_Witness ==
    /\ pc = "done"
    /\ sent = <<"GetInterface", "TriggerScan", "GetScan">>
    /\ ack = Some(<<AckMsg>>)
    /\ Len(stream) = 3
    /\ Len(result) = 2

(***************************************************************************)
(* C21: the "new scan results" notification that ends the scan the call    *)
(* triggered, multicast at any moment after the kernel accepted the        *)
(* trigger request, reaches the completion wait of the call: it never goes *)
(* by unheard, the time between the acknowledgement and the joining of the *)
(* multicast group included.                                               *)
(***************************************************************************)
C21_NotificationNotLost ==
    \A i \in 1..Len(unheard) : ~unheard[i].own

(***************************************************************************)
(* C22: when scan() sends its get-scan dump request after an accepted      *)
(* trigger, the scan it triggered has completed, whatever other scans      *)
(* complete meanwhile.                                                     *)
(***************************************************************************)
C22_OwnScanCompleted ==
    (ack = Some(<<AckMsg>>) /\ "GetScan" \in Range(sent)) => scanState = "completed"

(***************************************************************************)
(* C23: the scan wait of scan_wifi is bounded and stops at the first       *)
(* success: it polls at most 45 times, the polls are one second apart, no  *)
(* poll follows one that found the device's last scan later than the       *)
(* pre-scan timestamp, and while it waits its next step can always be      *)
(* taken.                                                                  *)
(***************************************************************************)
\* the poll found the last scan later than the pre-scan timestamp
Passed(poll) == prescan < poll.last

C23_ScanWaitIsBounded ==
    /\ Len(polled) <= WIFI_SCAN_TIMEOUT_SECONDS
    /\ \A i \in 1..(Len(polled) - 1) :
          /\ polled[i + 1].at = polled[i].at + Second
          /\ ~Passed(polled[i])
    /\ nmPc = "scan_poll" => Len(polled) < WIFI_SCAN_TIMEOUT_SECONDS
    /\ nmPc = "scan_sleep" => (polled # <<>> /\ ~Passed(polled[Len(polled)]))
    /\ nmPc = "get_stations" =>
          /\ polled # <<>>
          /\ Passed(polled[Len(polled)]) \/ Len(polled) = WIFI_SCAN_TIMEOUT_SECONDS
    /\ nmPc \in {"scan_poll", "scan_sleep"} => ENABLED (ScanWifiPoll \/ ScanWifiSleep)

C23_Witness ==
    /\ nmPc = "get_stations"
    /\ Len(polled) = WIFI_SCAN_TIMEOUT_SECONDS
    /\ Passed(polled[Len(polled)])
    /\ polled[1].last = -1

(***************************************************************************)
(* C24: when the polls of scan_wifi run out without the device's last scan *)
(* passing the pre-scan timestamp, the scan fails: init_network goes on to *)
(* read the stations and to create the portal only after a poll that       *)
(* passed.                                                                 *)
(***************************************************************************)
C24_TimeoutStopsInit ==
    nmPc \in {"get_stations", "create_portal", "portal_wait", "portal_delete", "ready"} =>
        (polled # <<>> /\ Passed(polled[Len(polled)]))

(***************************************************************************)
(* C29: create_portal goes by the first Activated or Deactivated state its *)
(* handler is called with: that state is what it receives, whatever states *)
(* came before it and whatever changes follow; it returns the connection   *)
(* only when that state is Activated; when it is Deactivated it deletes    *)
(* the profile the connection has and returns an error.                    *)
(***************************************************************************)
\* the first Activated or Deactivated state among events, as an option
FirstTerminal(events) ==
    LET at == { i \in 1..Len(events) : events[i] \in {"Activated", "Deactivated"} } IN
    IF at = {} THEN None
    ELSE Some(events[CHOOSE i \in at : \A j \in at : i <= j])

Answered == { i \in 1..Len(handlers) :
                handlers[i].rid # 0 /\ handlers[i].pc \in {"issue_shutdown", "responded"} }

\* C25: on every endpoint a failure of the underlying operation yields an error
\* response listing the cause chain from the outermost context to the root cause,
\* and no handler ends without a response.
C25_FailureYieldsErrorResponse ==
    \A i \in 1..Len(handlers) :
        /\ handlers[i].pc # "panicked"
        /\ (i \in Answered /\ ~Unwrap(responders[handlers[i].rid].value).ok)
              => handlers[i].response =
                    Some([status |-> 500,
                          body |-> <<FailedTo(CommandOf(handlers[i].endpoint))>>
                                   \o Unwrap(responders[handlers[i].rid].value).chain])

\* The command endpoints alone: a failed command is answered with status 500 and
\* the chain, a successful one with status 200.
CommandFailureIsRendered ==
    \A i \in Answered :
        LET value == Unwrap(responders[handlers[i].rid].value)
        IN handlers[i].response =
              Some(IF value.ok
                   THEN [status |-> 200, body |-> <<value.kind>>]
                   ELSE [status |-> 500,
                         body |-> <<FailedTo(CommandOf(handlers[i].endpoint))>>
                                  \o value.chain])

\* the requests the loop has not received yet
Queued == Range(queue)

\* C26: every command request is answered at most once and on its own responder;
\* it is answered exactly when it is neither waiting in the channel nor running as
\* a spawned future, so a synchronous command is answered as the loop receives it
\* and a spawned one as its future completes, whatever else is pending.
C26_AnsweredOnceOnOwnResponder ==
    \A rid \in 1..Len(responders) :
        /\ responders[rid].sends <= 1
        /\ IsSome(responders[rid].value) <=> responders[rid].sends = 1
        /\ IsSome(responders[rid].value)
              => Unwrap(responders[rid].value) \in OperationResults(responders[rid].command)
        /\ responders[rid].sends = 1 <=> (rid \notin Queued /\ rid \notin futures)
        /\ ~(rid \in Queued /\ rid \in futures)
        /\ responders[rid].command \in Synchronous => rid \notin futures

\* two commands are pending and the later one is answered first
C26_Witness ==
    /\ Len(responders) >= 2
    /\ responders[1].command # responders[2].command
    /\ 1 \in futures
    /\ responders[1].sends = 0
    /\ responders[2].sends = 1

\* the web server has been started
WebStarted ==
    \/ mainPc \in {"serving", "returned_ok"}
    \/ handlers # <<>>
    \/ shutdownOpt
    \/ sigPc # "off"

\* C27: the web server is started only after the network thread reported Ok; when
\* it reported an error or ended without reporting, the server is never started and
\* main can only return an error whose outermost context is the failed initialization.
C27_WebStartsAfterInitialization ==
    /\ WebStarted => initChan = SentOn(Ok("NetworkState"))
    /\ initChan \notin {EmptyChannel, SentOn(Ok("NetworkState"))}
          => /\ ~WebStarted
             /\ mainPc \in {"await_init", "returned_err"}
    /\ mainPc = "returned_err"
          => /\ initChan \notin {EmptyChannel, SentOn(Ok("NetworkState"))}
             /\ Head(mainErr) = "Failed to initialize network"
             /\ initChan.state = "sent" => Tail(mainErr) = Unwrap(initChan.value).chain
    /\ mainPc # "returned_err" => mainErr = <<>>

\* the network thread ended without reporting and main has returned the error
C27_Witness ==
    /\ initChan = ClosedChannel
    /\ netPc = "panicked"
    /\ mainPc = "returned_err"
    /\ mainErr = <<"Failed to initialize network",
                   "Failed to receive network initialization response", "channel closed">>

\* the /shutdown handlers that have run issue_shutdwon
ShutdownsIssued ==
    { i \in 1..Len(handlers) :
        handlers[i].endpoint = "/shutdown" /\ handlers[i].pc = "responded" }

\* C28: the shutdown signal of the server is sent at most once however many
\* /shutdown requests are handled; the shutdown future goes on only after a
\* /shutdown or a process signal, it sends Stop to the network thread, and the
\* server finishes only after that Stop has been answered.
C28_ShutdownOnceThenStop ==
    /\ shutdownSends <= 1
    /\ ShutdownsIssued # {} => (shutdownSends = 1 /\ ~shutdownOpt)
    /\ sigPc \in {"await_stop", "done"}
          => /\ shutdownSends = 1 \/ signalled
             /\ stopRid \in 1..Len(responders)
             /\ responders[stopRid].command = "Stop"
    /\ sigPc = "select" => stopRid = 0
    /\ sigPc = "done" => IsSome(responders[stopRid].value)
    /\ mainPc = "returned_ok" => sigPc = "done"

\* two /shutdown requests have both been handled and the server has finished
C28_Witness ==
    /\ Cardinality(ShutdownsIssued) = 2
    /\ shutdownSends = 1
    /\ ~signalled
    /\ mainPc = "returned_ok"

\* The results the application takes from scan() and from init_network are the ones
\* these functions return: every chain scan() fails with is in ScanResults, every
\* chain init_network fails with is in InitResults.
ScanChainsAreScanResults == pc = "failed" => Err(err) \in ScanResults
InitChainsAreInitResults == nmPc = "failed" => Err(nmErr) \in InitResults

=============================================================================
